---------------------------- MODULE Spec2Model ----------------------------
(***************************************************************************)
(* A model of the statistics pipeline of python_api/src/stats_calculator.py *)
(* (enrichment of tracking frames, player summaries, interval buckets and   *)
(* team roll-up).                                                           *)
(*                                                                          *)
(* Numbers.  The pandas columns hold IEEE doubles.  The model computes with *)
(* exact rationals [num, den] in lowest terms with den > 0, and keeps the   *)
(* three non-finite doubles as den = 0: NaN = 0/0, +inf = 1/0, -inf = -1/0. *)
(* Inputs are chosen so that every square root taken is exact.              *)
(*                                                                          *)
(* Tables.  A DataFrame is [columns, rows]: the set of column names and the *)
(* sequence of rows; a row is a function from the column names to values    *)
(* and carries the DataFrame index label as "index".                        *)
(***************************************************************************)
EXTENDS Integers, Sequences, FiniteSets, Bags, TLC

(***************************************************************************)
(* Bounds of the model                                                      *)
(***************************************************************************)
MaxFrames == 3
MaxQueuedTasks == 2

(***************************************************************************)
(* Exact arithmetic standing for float64                                    *)
(***************************************************************************)
\* F(x) and F(x, y) with the arguments evaluated once, before F uses them
Eval(F(_), x) == CHOOSE r \in {F(v) : v \in {x}} : TRUE
Eval2(F(_, _), x, y) == CHOOSE r \in {F(v, w) : v \in {x}, w \in {y}} : TRUE

Abs(n) == IF n < 0 THEN -n ELSE n

RECURSIVE GCD(_, _)
GCD(a, b) == IF b = 0 THEN a ELSE Eval2(GCD, b, a % b)

NaN == [num |-> 0, den |-> 0]
PosInf == [num |-> 1, den |-> 0]
NegInf == [num |-> -1, den |-> 0]

Sign(n) == IF n > 0 THEN 1 ELSE IF n < 0 THEN -1 ELSE 0

\* n/d as a float64 value: d = 0 gives NaN or an infinity, as numpy division does
Rat(n, d) ==
    Eval2(LAMBDA a, b :
            IF b = 0 THEN [num |-> Sign(a), den |-> 0]
            ELSE Eval2(LAMBDA g, s : [num |-> (s * a) \div g, den |-> (s * b) \div g],
                       GCD(Abs(a), Abs(b)), IF b < 0 THEN -1 ELSE 1),
          n, d)

Int2R(n) == [num |-> n, den |-> 1]
Zero == Int2R(0)

IsNaN(a) == a.den = 0 /\ a.num = 0
IsInf(a) == a.den = 0 /\ a.num # 0
IsFinite(a) == a.den # 0

RAdd(a, b) ==
    Eval2(LAMBDA x, y :
            IF IsFinite(x) /\ IsFinite(y) THEN Rat(x.num * y.den + y.num * x.den, x.den * y.den)
            ELSE IF IsNaN(x) \/ IsNaN(y) THEN NaN
            ELSE IF IsInf(x) /\ IsInf(y) /\ x # y THEN NaN
            ELSE IF IsInf(x) THEN x ELSE y,
         a, b)

RNeg(a) == [num |-> -a.num, den |-> a.den]
RSub(a, b) == RAdd(a, RNeg(b))

RMul(a, b) ==
    Eval2(LAMBDA x, y :
            IF IsFinite(x) /\ IsFinite(y) THEN Rat(x.num * y.num, x.den * y.den)
            ELSE IF IsNaN(x) \/ IsNaN(y) THEN NaN
            ELSE [num |-> Sign(x.num) * Sign(y.num), den |-> 0],
         a, b)

\* Series.divide: x/0 is +-inf, 0/0 is NaN, NaN propagates
RDiv(a, b) ==
    Eval2(LAMBDA x, y :
            IF IsNaN(x) \/ IsNaN(y) THEN NaN
            ELSE IF IsFinite(x) /\ IsFinite(y) THEN Rat(x.num * y.den, x.den * y.num)
            ELSE IF IsInf(x) /\ IsInf(y) THEN NaN
            ELSE IF IsInf(x) THEN [num |-> x.num * (IF y.num < 0 THEN -1 ELSE 1), den |-> 0]
            ELSE Zero,
         a, b)

\* comparisons of doubles: every comparison with NaN is false
RLt(a, b) == ~IsNaN(a) /\ ~IsNaN(b) /\ a.num * b.den < b.num * a.den
RGt(a, b) == RLt(b, a)
RLe(a, b) == ~IsNaN(a) /\ ~IsNaN(b) /\ ~RLt(b, a)

ISqrt(n) == Eval(LAMBDA m : CHOOSE r \in 0..m : r * r <= m /\ (r + 1) * (r + 1) > m, n)

\* np.sqrt on a value whose numerator and denominator are perfect squares
RSqrt(a) ==
    Eval(LAMBDA x :
            IF IsNaN(x) THEN NaN
            ELSE IF IsInf(x) THEN (IF x.num > 0 THEN PosInf ELSE NaN)
            ELSE IF x.num < 0 THEN NaN
            ELSE Rat(ISqrt(x.num), ISqrt(x.den)),
         a)

\* a fillna that leaves NaN in place
keep_nan(a) == a

\* Series.fillna(0)
fillna0(a) == IF IsNaN(a) THEN Zero ELSE a

\* DataFrame.replace([np.inf, -np.inf], 0) on one numeric value
replace_inf0(a) == IF IsInf(a) THEN Zero ELSE a

(***************************************************************************)
(* Program constants                                                        *)
(***************************************************************************)
DEFAULT_HIGH_SPEED_THRESHOLD_KMH == Rat(198, 10)
DEFAULT_SPRINT_SPEED_THRESHOLD_KMH == Rat(252, 10)
ACCELERATION_THRESHOLD_MS2 == Rat(1, 2)
DECELERATION_THRESHOLD_MS2 == Rat(-1, 2)
MS_TO_KMH == Rat(3600, 1000)

(***************************************************************************)
(* DataFrames                                                               *)
(***************************************************************************)
RawColumns ==
    {"player_id", "team_id", "timestamp_ms", "x", "y", "smooth_x_speed", "smooth_y_speed"}

\* the columns the docstring of enrich_tracking_data requires
RequiredColumns == RawColumns \ {"team_id"}

\* the columns of the empty frame enrich_tracking_data returns for empty input
EnrichedColumns ==
    RawColumns \cup {"speed_ms", "speed_kmh", "distance_covered_m", "time_s",
                     "acceleration_ms2", "is_sprinting", "is_high_intensity_running"}

\* columns that hold floats, which DataFrame.replace(inf) rewrites
FloatColumns ==
    {"x", "y", "smooth_x_speed", "smooth_y_speed", "speed_ms", "speed_kmh",
     "distance_covered_m", "time_s", "delta_speed_ms", "delta_time_s", "acceleration_ms2"}

EmptyDF(cols) == [columns |-> cols, rows |-> << >>]

\* mutant: a frame that lacks a required column is taken for an empty one
df_empty_lenient(df) ==
    \/ df.rows = << >>
    \/ ~({"player_id", "timestamp_ms", "x", "y", "smooth_x_speed", "smooth_y_speed"}
            \subseteq df.columns)

\* DataFrame.empty
df_empty(df) == df.rows = << >> \/ df.columns = {}

\* df[col] = values   (values: one value per row)
assign(df, col, values) ==
    Eval2(LAMBDA d, vs :
            [columns |-> d.columns \cup {col},
             rows |-> [i \in DOMAIN d.rows |-> (col :> vs[i]) @@ d.rows[i]]],
          df, values)

\* df.drop(columns = cols)
drop(df, cols) ==
    Eval(LAMBDA d :
           [columns |-> d.columns \ cols,
            rows |-> [i \in DOMAIN d.rows |->
                        [c \in (DOMAIN d.rows[i]) \ cols |-> d.rows[i][c]]]],
         df)

\* the order Python gives the player ids (string comparison)
PlayerRank == [p1 |-> 1, p2 |-> 2]

\* mutant: a sort that is not stable, rows of equal key come out in reverse arrival order
SortKeyLe_unstable(a, b) ==
    \/ PlayerRank[a.player_id] < PlayerRank[b.player_id]
    \/ /\ a.player_id = b.player_id
       /\ \/ a.timestamp_ms < b.timestamp_ms
          \/ a.timestamp_ms = b.timestamp_ms /\ a.index >= b.index

\* row a sorts at or before row b under by = ['player_id', 'timestamp_ms']
SortKeyLe(a, b) ==
    \/ PlayerRank[a.player_id] < PlayerRank[b.player_id]
    \/ /\ a.player_id = b.player_id
       /\ a.timestamp_ms <= b.timestamp_ms

RECURSIVE InsertRow(_, _)
\* r goes behind every row that sorts at or before it: ties keep arrival order
InsertRow(sorted, r) ==
    Eval(LAMBDA s :
           IF s = << >> THEN << r >>
           ELSE IF SortKeyLe(s[Len(s)], r) THEN Append(s, r)
           ELSE Append(InsertRow(SubSeq(s, 1, Len(s) - 1), r), s[Len(s)]),
         sorted)

RECURSIVE SortRows(_)
SortRows(rows) ==
    IF rows = << >> THEN << >>
    ELSE InsertRow(SortRows(SubSeq(rows, 1, Len(rows) - 1)), rows[Len(rows)])

\* df.sort_values(by = ['player_id', 'timestamp_ms'])
sort_values(df) ==
    Eval(LAMBDA d : [columns |-> d.columns, rows |-> SortRows(d.rows)], df)

SetMax(S) == CHOOSE m \in S : \A n \in S : n <= m

\* mutant: diff() over the whole table, without the groupby
PlainPrev(rows, i) == i - 1

\* the row before row i within the group of its player_id (0: there is none)
PrevInGroup(rows, i) ==
    LET S == {j \in 1..(i - 1) : rows[j].player_id = rows[i].player_id}
    IN  IF S = {} THEN 0 ELSE SetMax(S)

\* df.groupby('player_id')[col].diff(): NaN on the first row of every group
groupby_diff(df, col) ==
    Eval(LAMBDA d :
           [i \in DOMAIN d.rows |->
               Eval(LAMBDA j : IF j = 0 THEN NaN ELSE RSub(d.rows[i][col], d.rows[j][col]),
                    PrevInGroup(d.rows, i))],
         df)

(***************************************************************************)
(* Helper functions of the enrichment                                       *)
(***************************************************************************)
calculate_speed_kmh_raises(df) ==
    ~({"smooth_x_speed", "smooth_y_speed"} \subseteq df.columns)

\* lines 29-30 for one row
speed_ms_of(row) ==
    RSqrt(RAdd(RMul(row.smooth_x_speed, row.smooth_x_speed),
               RMul(row.smooth_y_speed, row.smooth_y_speed)))

speed_kmh_of(speed_ms) == RMul(speed_ms, MS_TO_KMH)

calculate_speed_kmh(df) ==
    Eval(LAMBDA d1 :
           assign(d1, "speed_kmh", [i \in DOMAIN d1.rows |-> speed_kmh_of(d1.rows[i].speed_ms)]),
         assign(df, "speed_ms", [i \in DOMAIN df.rows |-> speed_ms_of(df.rows[i])]))

calculate_distance_covered_raises(df) ==
    ~({"x", "y", "player_id", "timestamp_ms"} \subseteq df.columns)

\* lines 51-53 for one row, from its delta_x and delta_y
distance_of(delta_x, delta_y) ==
    fillna0(RSqrt(RAdd(RMul(delta_x, delta_x), RMul(delta_y, delta_y))))

calculate_distance_covered(df) ==
    Eval(LAMBDA s :
           Eval2(LAMBDA delta_x, delta_y :
                    assign(s, "distance_covered_m",
                           [i \in DOMAIN s.rows |-> distance_of(delta_x[i], delta_y[i])]),
                 groupby_diff(s, "x"), groupby_diff(s, "y")),
         sort_values(df))

calculate_acceleration_raises(df) ==
    \/ ~({"speed_ms", "timestamp_ms"} \subseteq df.columns)
    \/ "player_id" \notin df.columns

\* line 78 for one row, from its delta_speed_ms and delta_time_s
acceleration_of(delta_speed_ms, delta_time_s) == fillna0(RDiv(delta_speed_ms, delta_time_s))

\* mutant: line 80 left out
keep_inf(v) == v

\* line 80 for one value of a float column
replace_inf(v) == replace_inf0(v)

calculate_acceleration(df) ==
    Eval(LAMBDA t :
           Eval2(LAMBDA delta_speed_ms, delta_time_s :
                    Eval(LAMBDA a :
                           [columns |-> a.columns,
                            rows |-> [i \in DOMAIN a.rows |->
                                        [c \in DOMAIN a.rows[i] |->
                                            IF c \in FloatColumns THEN replace_inf(a.rows[i][c])
                                            ELSE a.rows[i][c]]]],
                         assign(t, "acceleration_ms2",
                                [i \in DOMAIN t.rows |->
                                    acceleration_of(delta_speed_ms[i], delta_time_s[i])])),
                 groupby_diff(t, "speed_ms"), groupby_diff(t, "time_s")),
         Eval(LAMBDA s :
                assign(s, "time_s", [i \in DOMAIN s.rows |-> Rat(s.rows[i].timestamp_ms, 1000)]),
              sort_values(df)))

(***************************************************************************)
(* Intensity flags                                                          *)
(***************************************************************************)
\* mutant: the comparison of line 122 turned round
sprint_flag_below(speed_kmh, sprint_speed_threshold_kmh) ==
    RLt(speed_kmh, sprint_speed_threshold_kmh)

\* line 122
sprint_flag(speed_kmh, sprint_speed_threshold_kmh) ==
    RGt(speed_kmh, sprint_speed_threshold_kmh)

\* mutant: the upper limit of lines 123-124 left out
hir_flag_no_upper(speed_kmh, high_speed_threshold_kmh, sprint_speed_threshold_kmh) ==
    RGt(speed_kmh, high_speed_threshold_kmh)

\* lines 123-124
hir_flag(speed_kmh, high_speed_threshold_kmh, sprint_speed_threshold_kmh) ==
    RGt(speed_kmh, high_speed_threshold_kmh) /\ RLe(speed_kmh, sprint_speed_threshold_kmh)

(***************************************************************************)
(* enrich_tracking_data.  A call ends [raised, value]: raised is "None" or  *)
(* the exception's type, value the returned DataFrame (none when raised).   *)
(***************************************************************************)
Raise(exc) == [raised |-> exc, value |-> EmptyDF({})]
Return(v) == [raised |-> "None", value |-> v]

\* lines 121-125
add_flags(df, high_speed_threshold_kmh, sprint_speed_threshold_kmh) ==
    Eval(LAMBDA d :
           assign(assign(d, "is_sprinting",
                         [i \in DOMAIN d.rows |->
                             sprint_flag(d.rows[i].speed_kmh, sprint_speed_threshold_kmh)]),
                  "is_high_intensity_running",
                  [i \in DOMAIN d.rows |->
                      hir_flag(d.rows[i].speed_kmh, high_speed_threshold_kmh,
                               sprint_speed_threshold_kmh)]),
         df)

enrich_tracking_data(tracking_df, high_speed_threshold_kmh, sprint_speed_threshold_kmh) ==
    IF df_empty(tracking_df) THEN Return(EmptyDF(EnrichedColumns))
    ELSE IF calculate_speed_kmh_raises(tracking_df) THEN Raise("ValueError")
    ELSE Eval(LAMBDA d1 :
           IF calculate_distance_covered_raises(d1) THEN Raise("ValueError")
           ELSE Eval(LAMBDA d2 :
                  IF calculate_acceleration_raises(d2) THEN Raise("ValueError")
                  ELSE Return(add_flags(calculate_acceleration(d2), high_speed_threshold_kmh,
                                        sprint_speed_threshold_kmh)),
                  calculate_distance_covered(d1)),
           calculate_speed_kmh(tracking_df))

(***************************************************************************)
(* Reductions of a column                                                   *)
(***************************************************************************)
RECURSIVE SumTo(_, _)
SumTo(vals, n) == IF n = 0 THEN Zero ELSE RAdd(SumTo(vals, n - 1), vals[n])

\* Series.sum(): 0 for an empty series
SeqSum(vals) == Eval(LAMBDA vs : SumTo(vs, Len(vs)), vals)

\* Series.mean(): NaN for an empty series
SeqMean(vals) == Eval(LAMBDA vs : RDiv(SumTo(vs, Len(vs)), Int2R(Len(vs))), vals)

\* Series.max(): NaN for an empty series
SeqMaxR(vals) ==
    Eval(LAMBDA vs :
           IF vs = << >> THEN NaN
           ELSE CHOOSE m \in {vs[i] : i \in DOMAIN vs} : \A i \in DOMAIN vs : ~RGt(vs[i], m),
         vals)

\* the number of True values of a boolean series
CountTrue(flags) == Eval(LAMBDA fs : Cardinality({i \in DOMAIN fs : fs[i]}), flags)

column(df, col) == [i \in DOMAIN df.rows |-> df.rows[i][col]]

RECURSIVE SelectTo(_, _, _)
SelectTo(rows, mask, n) ==
    IF n = 0 THEN << >>
    ELSE IF mask[n] THEN Append(SelectTo(rows, mask, n - 1), rows[n])
    ELSE SelectTo(rows, mask, n - 1)

\* df.loc[mask]: the rows whose mask is True, in order
loc(df, mask) ==
    Eval2(LAMBDA d, m : [columns |-> d.columns, rows |-> SelectTo(d.rows, m, Len(d.rows))],
          df, mask)

\* df[df['player_id'] == p], and the group of p in df.groupby('player_id')
player_rows(df, p) == loc(df, [i \in DOMAIN df.rows |-> df.rows[i].player_id = p])

players_of(df) == {df.rows[i].player_id : i \in DOMAIN df.rows}

(***************************************************************************)
(* calculate_high_intensity_running_stats                                   *)
(***************************************************************************)
calculate_high_intensity_running_stats_raises(df) ==
    ~({"speed_kmh", "distance_covered_m"} \subseteq df.columns)

\* mutant: the flag is always recomputed from the thresholds of the call
is_hir_mask_recomputed(df, high_speed_threshold_kmh, sprint_speed_threshold_kmh) ==
    [i \in DOMAIN df.rows |->
        hir_flag(df.rows[i].speed_kmh, high_speed_threshold_kmh, sprint_speed_threshold_kmh)]

\* the mask is_hir of lines 149-153
is_hir_mask(df, high_speed_threshold_kmh, sprint_speed_threshold_kmh) ==
    IF "is_high_intensity_running" \notin df.columns
    THEN [i \in DOMAIN df.rows |->
            hir_flag(df.rows[i].speed_kmh, high_speed_threshold_kmh, sprint_speed_threshold_kmh)]
    ELSE column(df, "is_high_intensity_running")

\* the mask is_sprint of lines 155-158
is_sprint_mask(df, sprint_speed_threshold_kmh) ==
    IF "is_sprinting" \notin df.columns
    THEN [i \in DOMAIN df.rows |-> sprint_flag(df.rows[i].speed_kmh, sprint_speed_threshold_kmh)]
    ELSE column(df, "is_sprinting")

\* df.loc[mask, 'distance_covered_m'].sum()
masked_distance(df, mask) ==
    Eval(LAMBDA sel : SeqSum(column(sel, "distance_covered_m")), loc(df, mask))

calculate_high_intensity_running_stats(df, high_speed_threshold_kmh, sprint_speed_threshold_kmh) ==
    Eval(LAMBDA d :
           [total_high_intensity_running_distance_m |->
               masked_distance(d, is_hir_mask(d, high_speed_threshold_kmh,
                                              sprint_speed_threshold_kmh)),
            total_sprint_distance_m |->
               masked_distance(d, is_sprint_mask(d, sprint_speed_threshold_kmh))],
         df)

(***************************************************************************)
(* count_accelerations_decelerations                                        *)
(***************************************************************************)
\* mutant: no fallback, a missing acceleration_ms2 always raises
no_acceleration_fallback(df) == FALSE

\* lines 185-192: acceleration is recomputed when its inputs are present
acceleration_fallback(df) == {"speed_ms", "timestamp_ms", "player_id"} \subseteq df.columns

count_accelerations_decelerations_raises(df) ==
    "acceleration_ms2" \notin df.columns /\ ~acceleration_fallback(df)

\* mutant: every frame with a change of speed above the threshold counts as an acceleration
count_speed_changes(df, acceleration_threshold_ms2, deceleration_threshold_ms2) ==
    Eval(LAMBDA d :
           [num_accelerations |->
               Int2R(CountTrue([i \in DOMAIN d.rows |->
                         \/ RGt(d.rows[i].acceleration_ms2, acceleration_threshold_ms2)
                         \/ RGt(RNeg(d.rows[i].acceleration_ms2), acceleration_threshold_ms2)])),
            num_decelerations |->
               Int2R(CountTrue([i \in DOMAIN d.rows |->
                         RLt(d.rows[i].acceleration_ms2, deceleration_threshold_ms2)]))],
         IF "acceleration_ms2" \notin df.columns THEN calculate_acceleration(df) ELSE df)

count_accelerations_decelerations(df, acceleration_threshold_ms2, deceleration_threshold_ms2) ==
    Eval(LAMBDA d :
           [num_accelerations |->
               Int2R(CountTrue([i \in DOMAIN d.rows |->
                         RGt(d.rows[i].acceleration_ms2, acceleration_threshold_ms2)])),
            num_decelerations |->
               Int2R(CountTrue([i \in DOMAIN d.rows |->
                         RLt(d.rows[i].acceleration_ms2, deceleration_threshold_ms2)]))],
         IF "acceleration_ms2" \notin df.columns THEN calculate_acceleration(df) ELSE df)

(***************************************************************************)
(* calculate_player_summary_stats                                           *)
(***************************************************************************)
SummaryFields ==
    {"total_distance_m", "avg_speed_kmh", "max_speed_kmh", "duration_minutes",
     "total_high_intensity_running_distance_m", "total_sprint_distance_m",
     "num_accelerations", "num_decelerations"}

ZeroSummary == [f \in SummaryFields |-> Zero]

RaiseS(exc) == [raised |-> exc, value |-> ZeroSummary]

SeqMinInt(vals) == CHOOSE m \in {vals[i] : i \in DOMAIN vals} : \A i \in DOMAIN vals : m <= vals[i]
SeqMaxInt(vals) == CHOOSE m \in {vals[i] : i \in DOMAIN vals} : \A i \in DOMAIN vals : vals[i] <= m

\* line 234
total_distance_of(df) == SeqSum(column(df, "distance_covered_m"))

\* lines 251-252
duration_minutes_of(df) ==
    Eval(LAMBDA ts : RDiv(Rat(SeqMaxInt(ts) - SeqMinInt(ts), 1000), Int2R(60)),
         column(df, "timestamp_ms"))

calculate_player_summary_stats(df, high_speed_threshold_kmh, sprint_speed_threshold_kmh, acceleration_threshold_ms2, deceleration_threshold_ms2) ==
    IF df_empty(df) THEN Return(ZeroSummary)
    ELSE IF "distance_covered_m" \notin df.columns THEN RaiseS("KeyError")
    ELSE IF calculate_high_intensity_running_stats_raises(df) THEN RaiseS("ValueError")
    ELSE IF count_accelerations_decelerations_raises(df) THEN RaiseS("ValueError")
    ELSE IF "timestamp_ms" \notin df.columns THEN RaiseS("KeyError")
    ELSE Eval2(LAMBDA intensity_stats, accel_decel_stats :
           Return(
             [total_distance_m |-> total_distance_of(df),
              avg_speed_kmh |-> SeqMean(column(df, "speed_kmh")),
              max_speed_kmh |-> SeqMaxR(column(df, "speed_kmh")),
              duration_minutes |-> duration_minutes_of(df),
              total_high_intensity_running_distance_m |->
                  intensity_stats.total_high_intensity_running_distance_m,
              total_sprint_distance_m |-> intensity_stats.total_sprint_distance_m,
              num_accelerations |-> accel_decel_stats.num_accelerations,
              num_decelerations |-> accel_decel_stats.num_decelerations]),
           calculate_high_intensity_running_stats(df, high_speed_threshold_kmh,
                                                  sprint_speed_threshold_kmh),
           count_accelerations_decelerations(df, acceleration_threshold_ms2,
                                             deceleration_threshold_ms2))

(***************************************************************************)
(* aggregate_stats_by_interval                                              *)
(***************************************************************************)
BucketFields ==
    {"interval_start_time_s", "interval_end_time_s", "distance_m",
     "high_intensity_running_distance_m", "sprint_distance_m",
     "num_accelerations", "num_decelerations", "avg_speed_kmh"}

\* ceil(a) of a finite value
RCeil(a) == -((-a.num) \div a.den)

\* mutant: floor instead of ceil, one edge short when stop is no multiple of step
np_arange_floor(stop, step) ==
    Eval(LAMBDA n : [k \in 1..(IF n > 0 THEN n ELSE 0) |-> Int2R((k - 1) * step)],
         RDiv(stop, Int2R(step)).num \div RDiv(stop, Int2R(step)).den)

\* np.arange(0, stop, step): 0, step, 2*step, ... below stop
np_arange(stop, step) ==
    Eval(LAMBDA n : [k \in 1..(IF n > 0 THEN n ELSE 0) |-> Int2R((k - 1) * step)],
         RCeil(RDiv(stop, Int2R(step))))

\* bins.searchsorted(x, side = 'right'): the number of edges at or below x
searchsorted_right(bins, x) == Cardinality({k \in DOMAIN bins : RLe(bins[k], x)})

\* pd.cut(x, bins, right = False, include_lowest = True) for one value: the
\* number k of the interval [bins[k], bins[k+1]) it falls in, 0 for NaN
pd_cut(x, bins) ==
    Eval(LAMBDA id : IF IsNaN(x) \/ id = Len(bins) \/ id = 0 THEN 0 ELSE id,
         IF x = bins[1] THEN 1 ELSE searchsorted_right(bins, x))

\* the bin edges of lines 296-298
interval_bins(max_relative_time, time_interval_minutes) ==
    np_arange(RAdd(max_relative_time, Int2R(time_interval_minutes * 60)),
              time_interval_minutes * 60)

\* lines 288-300: the edges, and data['relative_time_s'] and
\* data['time_interval_group'] (one interval number per row)
time_interval_group(df, time_interval_minutes) ==
    Eval(LAMBDA min_time_s :
      Eval(LAMBDA relative_time_s :
        Eval(LAMBDA bins :
               [bins |-> bins,
                min_time_s |-> min_time_s,
                relative_time_s |-> relative_time_s,
                group |-> [i \in DOMAIN df.rows |-> pd_cut(relative_time_s[i], bins)]],
             interval_bins(SeqMaxR(relative_time_s), time_interval_minutes)),
        [i \in DOMAIN df.rows |-> RSub(Rat(df.rows[i].timestamp_ms, 1000), min_time_s)]),
      Rat(SeqMinInt(column(df, "timestamp_ms")), 1000))

\* aggregate_group on a group that has rows
aggregate_group(group, high_speed_threshold_kmh, sprint_speed_threshold_kmh, acceleration_threshold_ms2, deceleration_threshold_ms2) ==
    Eval2(LAMBDA intensity_stats, accel_decel_stats :
            [distance_m |-> SeqSum(column(group, "distance_covered_m")),
             high_intensity_running_distance_m |->
                 intensity_stats.total_high_intensity_running_distance_m,
             sprint_distance_m |-> intensity_stats.total_sprint_distance_m,
             num_accelerations |-> accel_decel_stats.num_accelerations,
             num_decelerations |-> accel_decel_stats.num_decelerations,
             avg_speed_kmh |-> SeqMean(column(group, "speed_kmh"))],
          calculate_high_intensity_running_stats(group, high_speed_threshold_kmh,
                                                 sprint_speed_threshold_kmh),
          count_accelerations_decelerations(group, acceleration_threshold_ms2,
                                            deceleration_threshold_ms2))

\* the row of a category no row fell in: NaN from the reindexing
unobserved_group ==
    [distance_m |-> NaN, high_intensity_running_distance_m |-> NaN, sprint_distance_m |-> NaN,
     num_accelerations |-> NaN, num_decelerations |-> NaN, avg_speed_kmh |-> NaN]

RaiseL(exc) == [raised |-> exc, value |-> << >>]

\* a row whose times are relative to the first frame
interval_row_relative(df, g, k, high_speed_threshold_kmh, sprint_speed_threshold_kmh, acceleration_threshold_ms2, deceleration_threshold_ms2) ==
    Eval(LAMBDA members :
      Eval(LAMBDA stats :
             [f \in BucketFields |->
                 IF f = "interval_start_time_s" THEN g.bins[k]
                 ELSE IF f = "interval_end_time_s" THEN g.bins[k + 1]
                 ELSE fillna0(stats[f])],
           IF members.rows = << >> THEN unobserved_group
           ELSE aggregate_group(members, high_speed_threshold_kmh, sprint_speed_threshold_kmh,
                                acceleration_threshold_ms2, deceleration_threshold_ms2)),
      loc(df, [i \in DOMAIN df.rows |-> g.group[i] = k]))

\* the output row of interval k: lines 325-336
interval_row(df, g, k, high_speed_threshold_kmh, sprint_speed_threshold_kmh, acceleration_threshold_ms2, deceleration_threshold_ms2) ==
    Eval(LAMBDA members :
      Eval(LAMBDA stats :
             [f \in BucketFields |->
                 IF f = "interval_start_time_s" THEN RAdd(g.bins[k], g.min_time_s)
                 ELSE IF f = "interval_end_time_s" THEN RAdd(g.bins[k + 1], g.min_time_s)
                 ELSE fillna0(stats[f])],
           IF members.rows = << >> THEN unobserved_group
           ELSE aggregate_group(members, high_speed_threshold_kmh, sprint_speed_threshold_kmh,
                                acceleration_threshold_ms2, deceleration_threshold_ms2)),
      loc(df, [i \in DOMAIN df.rows |-> g.group[i] = k]))

aggregate_stats_by_interval(df, time_interval_minutes, high_speed_threshold_kmh, sprint_speed_threshold_kmh, acceleration_threshold_ms2, deceleration_threshold_ms2) ==
    IF df_empty(df) \/ "timestamp_ms" \notin df.columns THEN Return(<< >>)
    ELSE Eval(LAMBDA g :
           \* no interval at all: the groupby has no group, and selecting the
           \* result columns of the frame it returns fails
           IF Len(g.bins) < 2 THEN RaiseL("KeyError")
           ELSE IF calculate_high_intensity_running_stats_raises(df) THEN RaiseL("ValueError")
           ELSE IF count_accelerations_decelerations_raises(df) THEN RaiseL("ValueError")
           ELSE Return([k \in 1..(Len(g.bins) - 1) |->
                          interval_row(df, g, k, high_speed_threshold_kmh,
                                       sprint_speed_threshold_kmh, acceleration_threshold_ms2,
                                       deceleration_threshold_ms2)]),
           time_interval_group(df, time_interval_minutes))

(***************************************************************************)
(* generate_all_player_summaries                                            *)
(***************************************************************************)
RaiseD(exc) == [raised |-> exc, value |-> << >>]

\* line 359: the summary of one group, with the default thresholds
default_summary(df) ==
    Eval(LAMBDA d :
           calculate_player_summary_stats(d, DEFAULT_HIGH_SPEED_THRESHOLD_KMH,
                                          DEFAULT_SPRINT_SPEED_THRESHOLD_KMH,
                                          ACCELERATION_THRESHOLD_MS2, DECELERATION_THRESHOLD_MS2),
         df)

generate_all_player_summaries(enriched_tracking_df) ==
    IF "player_id" \notin enriched_tracking_df.columns THEN RaiseD("ValueError")
    ELSE IF df_empty(enriched_tracking_df) THEN Return(<< >>)
    ELSE Eval(LAMBDA all :
           IF \E p \in DOMAIN all : all[p].raised # "None"
           THEN RaiseD(all[CHOOSE p \in DOMAIN all :
                             /\ all[p].raised # "None"
                             /\ \A q \in DOMAIN all :
                                   all[q].raised # "None" => PlayerRank[p] <= PlayerRank[q]].raised)
           ELSE Return([p \in DOMAIN all |-> all[p].value]),
           [p \in players_of(enriched_tracking_df) |->
               default_summary(player_rows(enriched_tracking_df, p))])

(***************************************************************************)
(* generate_team_summaries                                                  *)
(***************************************************************************)
\* sub in col, for the column names and the substrings lines 399-401 test
NameContains(col, sub) ==
    <<col, sub>> \in {<<"avg_speed_kmh", "avg_">>, <<"max_speed_kmh", "max_">>,
                      <<"duration_minutes", "duration_">>}

\* mutant: the correction of line 407 left out
agg_funcs_uncorrected(col) ==
    IF NameContains(col, "avg_") \/ NameContains(col, "duration_") THEN "mean"
    ELSE IF NameContains(col, "max_") THEN "max"
    ELSE "sum"

\* agg_funcs[col] after lines 397-407
agg_funcs(col) ==
    IF col = "duration_minutes" THEN "sum"
    ELSE IF NameContains(col, "avg_") \/ NameContains(col, "duration_") THEN "mean"
    ELSE IF NameContains(col, "max_") THEN "max"
    ELSE "sum"

\* mutant: a player without an entry in the map gets no team
team_of_mapped_only(player_to_team_map, player_id) ==
    IF player_id \in DOMAIN player_to_team_map THEN player_to_team_map[player_id]
    ELSE "NaN"

\* player_to_team_map.get(player_id, "UnknownTeam")
team_of(player_to_team_map, player_id) ==
    IF player_id \in DOMAIN player_to_team_map THEN player_to_team_map[player_id]
    ELSE "UnknownTeam"

RECURSIVE RankedSeq(_)
\* the players of a set in the order of the summaries dict
RankedSeq(S) ==
    IF S = {} THEN << >>
    ELSE Eval(LAMBDA p : Append(RankedSeq(S \ {p}), p),
              CHOOSE q \in S : \A r \in S : PlayerRank[r] <= PlayerRank[q])

\* one aggregation of groupby('team_id').agg(agg_funcs)
reduce(func, vals) ==
    IF func = "mean" THEN SeqMean(vals)
    ELSE IF func = "max" THEN SeqMaxR(vals)
    ELSE SeqSum(vals)

\* the rows of all_player_stats_df with the given team_id
team_members(all_player_summaries_dict, player_to_team_map, t) ==
    RankedSeq({p \in DOMAIN all_player_summaries_dict : team_of(player_to_team_map, p) = t})

generate_team_summaries(all_player_summaries_dict, player_to_team_map) ==
    IF DOMAIN all_player_summaries_dict = {} THEN << >>
    ELSE [t \in {team_of(player_to_team_map, p) : p \in DOMAIN all_player_summaries_dict} |->
            Eval(LAMBDA roster :
                   [col \in SummaryFields |->
                       reduce(agg_funcs(col),
                              [i \in DOMAIN roster |-> all_player_summaries_dict[roster[i]][col]])],
                 team_members(all_player_summaries_dict, player_to_team_map, t))]

(***************************************************************************)
(* generate_team_intervals                                                  *)
(***************************************************************************)
TeamBucketFields ==
    {"interval_start_time_s", "interval_end_time_s", "total_distance_m",
     "total_high_intensity_running_distance_m", "total_sprint_distance_m",
     "total_num_accelerations", "total_num_decelerations", "avg_team_speed_kmh"}

\* a team aggregate that takes the intensity of a frame from its speed, sprint
\* from the threshold on
aggregate_team_group_by_speed(group) ==
    [total_distance_m |-> SeqSum(column(group, "distance_covered_m")),
     total_high_intensity_running_distance_m |->
         masked_distance(group, [i \in DOMAIN group.rows |->
             /\ RGt(group.rows[i].speed_kmh, DEFAULT_HIGH_SPEED_THRESHOLD_KMH)
             /\ RLt(group.rows[i].speed_kmh, DEFAULT_SPRINT_SPEED_THRESHOLD_KMH)]),
     total_sprint_distance_m |->
         masked_distance(group, [i \in DOMAIN group.rows |->
             ~RLt(group.rows[i].speed_kmh, DEFAULT_SPRINT_SPEED_THRESHOLD_KMH)]),
     total_num_accelerations |->
         Int2R(CountTrue([i \in DOMAIN group.rows |->
                   RGt(group.rows[i].acceleration_ms2, ACCELERATION_THRESHOLD_MS2)])),
     total_num_decelerations |->
         Int2R(CountTrue([i \in DOMAIN group.rows |->
                   RLt(group.rows[i].acceleration_ms2, DECELERATION_THRESHOLD_MS2)])),
     avg_team_speed_kmh |-> SeqMean(column(group, "speed_kmh"))]

\* aggregate_team_group on a group that has rows
aggregate_team_group(group) ==
    [total_distance_m |-> SeqSum(column(group, "distance_covered_m")),
     total_high_intensity_running_distance_m |->
         masked_distance(group, column(group, "is_high_intensity_running")),
     total_sprint_distance_m |-> masked_distance(group, column(group, "is_sprinting")),
     total_num_accelerations |->
         Int2R(CountTrue([i \in DOMAIN group.rows |->
                   RGt(group.rows[i].acceleration_ms2, ACCELERATION_THRESHOLD_MS2)])),
     total_num_decelerations |->
         Int2R(CountTrue([i \in DOMAIN group.rows |->
                   RLt(group.rows[i].acceleration_ms2, DECELERATION_THRESHOLD_MS2)])),
     avg_team_speed_kmh |-> SeqMean(column(group, "speed_kmh"))]

\* the row of a category no row fell in
unobserved_team_group == [f \in TeamBucketFields |-> NaN]

\* the output row of interval k: lines 496-505
team_interval_row(df, g, k) ==
    Eval(LAMBDA members :
      Eval(LAMBDA stats :
             [f \in TeamBucketFields |->
                 IF f = "interval_start_time_s" THEN RAdd(g.bins[k], g.min_time_s)
                 ELSE IF f = "interval_end_time_s" THEN RAdd(g.bins[k + 1], g.min_time_s)
                 ELSE fillna0(stats[f])],
           IF members.rows = << >> THEN unobserved_team_group
           ELSE aggregate_team_group(members)),
      loc(df, [i \in DOMAIN df.rows |-> g.group[i] = k]))

generate_team_intervals(df, time_interval_minutes) ==
    IF df_empty(df) \/ "timestamp_ms" \notin df.columns THEN Return(<< >>)
    ELSE Eval(LAMBDA g :
           IF Len(g.bins) < 2 THEN RaiseL("KeyError")
           ELSE IF ~({"is_high_intensity_running", "is_sprinting", "acceleration_ms2",
                      "distance_covered_m", "speed_kmh"} \subseteq df.columns)
                THEN RaiseL("KeyError")
           ELSE Return([k \in 1..(Len(g.bins) - 1) |-> team_interval_row(df, g, k)]),
           time_interval_group(df, time_interval_minutes))

\* generate_player_time_series: the records of the columns that are there
generate_player_time_series(df) ==
    [i \in DOMAIN df.rows |->
        [c \in {"timestamp_ms", "x", "y", "speed_kmh", "distance_covered_m", "is_sprinting",
                "is_high_intensity_running", "acceleration_ms2", "time_s"} \cap df.columns |->
            df.rows[i][c]]]

(***************************************************************************)
(* One run of the pipeline: enrichment, then the summary of every player    *)
(***************************************************************************)
\* enrich_tracking_data and calculate_player_summary_stats with the same thresholds
run_pipeline(df, high_speed_threshold_kmh, sprint_speed_threshold_kmh) ==
    Eval(LAMBDA e :
           [tracking_df |-> df,
            high_speed_threshold_kmh |-> high_speed_threshold_kmh,
            sprint_speed_threshold_kmh |-> sprint_speed_threshold_kmh,
            raised |-> e.raised,
            enriched |-> e.value,
            summaries |->
                [p \in players_of(e.value) |->
                    calculate_player_summary_stats(
                        player_rows(e.value, p), high_speed_threshold_kmh,
                        sprint_speed_threshold_kmh, ACCELERATION_THRESHOLD_MS2,
                        DECELERATION_THRESHOLD_MS2).value]],
         enrich_tracking_data(df, high_speed_threshold_kmh, sprint_speed_threshold_kmh))

\* enrich_tracking_data, then generate_all_player_summaries, with the defaults
process_frames(df) ==
    Eval(LAMBDA e :
           [tracking_df |-> df,
            high_speed_threshold_kmh |-> DEFAULT_HIGH_SPEED_THRESHOLD_KMH,
            sprint_speed_threshold_kmh |-> DEFAULT_SPRINT_SPEED_THRESHOLD_KMH,
            raised |-> e.raised,
            enriched |-> e.value,
            summaries |-> generate_all_player_summaries(e.value).value],
         enrich_tracking_data(df, DEFAULT_HIGH_SPEED_THRESHOLD_KMH,
                              DEFAULT_SPRINT_SPEED_THRESHOLD_KMH))

(***************************************************************************)
(* The inputs the pipeline is run on                                        *)
(***************************************************************************)
Players == {"p1", "p2"}

\* team_id of the raw frames of a player
RosterTeam == [p1 |-> "teamA", p2 |-> "teamB"]

\* position (m) and smoothed velocity (m/s) of a frame:
\* 7 m/s = 25.2 km/h, 25/3 m/s = 30 km/h, 25/9 m/s = 10 km/h
Motions ==
    {[x |-> Int2R(0), y |-> Int2R(0), smooth_x_speed |-> Int2R(7), smooth_y_speed |-> Zero],
     [x |-> Int2R(3), y |-> Int2R(4), smooth_x_speed |-> Rat(25, 3), smooth_y_speed |-> Zero],
     [x |-> Int2R(3), y |-> Int2R(0), smooth_x_speed |-> Zero, smooth_y_speed |-> Rat(25, 9)]}

ShortTimestamps == {0, 1000}
LongTimestamps == {0, 300000, 420000}

RawFrame(p, t, m) ==
    [player_id |-> p, team_id |-> RosterTeam[p], timestamp_ms |-> t,
     x |-> m.x, y |-> m.y, smooth_x_speed |-> m.smooth_x_speed,
     smooth_y_speed |-> m.smooth_y_speed]

\* the tables of at most MaxFrames frames over the given players and timestamps,
\* in any arrival order, with the default RangeIndex
Tables(players, timestamps) ==
    LET frames == {RawFrame(p, t, m) : p \in players, t \in timestamps, m \in Motions}
    IN  {[columns |-> RawColumns,
          rows |-> [i \in DOMAIN rs |-> ("index" :> (i - 1)) @@ rs[i]]] :
            rs \in UNION {[1..n -> frames] : n \in 0..MaxFrames}}

\* (high_speed_threshold_kmh, sprint_speed_threshold_kmh) pairs a caller passes:
\* the defaults, and a sprint threshold below the running threshold
ThresholdPairs ==
    {<<DEFAULT_HIGH_SPEED_THRESHOLD_KMH, DEFAULT_SPRINT_SPEED_THRESHOLD_KMH>>,
     <<Int2R(30), DEFAULT_SPRINT_SPEED_THRESHOLD_KMH>>}

\* sprint thresholds a caller passes: 19.8, 25.2 and 30 km/h
SprintThresholds ==
    {DEFAULT_HIGH_SPEED_THRESHOLD_KMH, DEFAULT_SPRINT_SPEED_THRESHOLD_KMH, Int2R(30)}

IntervalMinutes == {2, 5}

TeamMaps ==
    {[p1 |-> "teamA", p2 |-> "teamA"], [p1 |-> "teamA", p2 |-> "teamB"],
     [p1 |-> "teamA"], << >>}

\* the columns a caller may have left out of the frames it passes on
DroppedFromSummary ==
    {{}, {"speed_kmh"}, {"distance_covered_m"}, {"acceleration_ms2"},
     {"acceleration_ms2", "speed_ms"}, {"is_sprinting", "is_high_intensity_running"}}

\* the flag columns a caller may have left out of the frames of a player
DroppedFromIntervals == {{}, {"is_sprinting", "is_high_intensity_running"}}

(***************************************************************************)
(* The API: files, storage configuration, loaders                           *)
(***************************************************************************)
MatchIds == {"m1", "m2"}
TrackingFiles == {"tracking.parquet", "no_xy.parquet", "missing.parquet"}
EventFiles == {"events.parquet", "missing.parquet"}

EXPECTED_TRACKING_COLS ==
    {"player_id", "team_id", "timestamp_ms", "x", "y", "smooth_x_speed", "smooth_y_speed"}
EXPECTED_EVENT_COLS ==
    {"event_id", "event_type", "player_id", "team_id", "timestamp_ms", "start_x", "start_y",
     "end_x", "end_y"}

\* Path.exists()
path_exists(path) == path # "missing.parquet"

\* the frames of the tracking file: p1 at 10 km/h then 30 km/h, p2 at 25.2 km/h then 30 km/h
MatchFrames ==
    <<RawFrame("p1", 0, [x |-> Int2R(3), y |-> Int2R(0),
                         smooth_x_speed |-> Zero, smooth_y_speed |-> Rat(25, 9)]),
      RawFrame("p2", 0, [x |-> Int2R(0), y |-> Int2R(0),
                         smooth_x_speed |-> Int2R(7), smooth_y_speed |-> Zero]),
      RawFrame("p1", 1000, [x |-> Int2R(3), y |-> Int2R(4),
                            smooth_x_speed |-> Rat(25, 3), smooth_y_speed |-> Zero]),
      RawFrame("p2", 1000, [x |-> Int2R(3), y |-> Int2R(4),
                            smooth_x_speed |-> Rat(25, 3), smooth_y_speed |-> Zero])>>

MatchTable ==
    [columns |-> RawColumns,
     rows |-> [i \in DOMAIN MatchFrames |-> ("index" :> (i - 1)) @@ MatchFrames[i]]]

EventTable ==
    [columns |-> EXPECTED_EVENT_COLS,
     rows |-> <<[event_id |-> 1, event_type |-> "PASS", player_id |-> "p1",
                 team_id |-> "teamA", timestamp_ms |-> 1000]>>]

\* pd.read_parquet(file_path)
read_parquet(file_path) ==
    IF file_path = "tracking.parquet" THEN Return(MatchTable)
    ELSE IF file_path = "no_xy.parquet" THEN Return(drop(MatchTable, {"x", "y"}))
    ELSE IF file_path = "no_player_id.parquet" THEN Return(drop(MatchTable, {"player_id"}))
    ELSE IF file_path = "no_team_id.parquet" THEN Return(drop(MatchTable, {"team_id"}))
    ELSE IF file_path = "events.parquet" THEN Return(EventTable)
    ELSE [raised |-> "FileNotFoundError", value |-> EmptyDF({})]

load_tracking_data(file_path) ==
    Eval(LAMBDA r :
           IF r.raised # "None" THEN EmptyDF(EXPECTED_TRACKING_COLS)
           ELSE IF ~({"timestamp_ms", "x", "y"} \subseteq r.value.columns)
                THEN EmptyDF(EXPECTED_TRACKING_COLS)
           ELSE r.value,
         read_parquet(file_path))

load_event_data(file_path) ==
    Eval(LAMBDA r :
           IF r.raised # "None" THEN EmptyDF(EXPECTED_EVENT_COLS)
           ELSE IF ~({"event_id", "event_type", "timestamp_ms"} \subseteq r.value.columns)
                THEN EmptyDF(EXPECTED_EVENT_COLS)
           ELSE r.value,
         read_parquet(file_path))

\* the environment a background task finds: STORAGE_TYPE, whether the other
\* variables are set, and whether a blob download fails
StorageConfigs ==
    {[STORAGE_TYPE |-> "local", configured |-> TRUE, download_fails |-> FALSE],
     [STORAGE_TYPE |-> "local", configured |-> FALSE, download_fails |-> FALSE],
     [STORAGE_TYPE |-> "azure", configured |-> TRUE, download_fails |-> FALSE],
     [STORAGE_TYPE |-> "azure", configured |-> TRUE, download_fails |-> TRUE],
     [STORAGE_TYPE |-> "azure", configured |-> FALSE, download_fails |-> FALSE],
     [STORAGE_TYPE |-> "s3", configured |-> TRUE, download_fails |-> FALSE]}

(***************************************************************************)
(* _process_match_data_background                                           *)
(***************************************************************************)
\* _get_player_to_team_map
get_player_to_team_map(df) ==
    IF df_empty(df) \/ "player_id" \notin df.columns \/ "team_id" \notin df.columns THEN << >>
    ELSE [p \in players_of(df) |->
             df.rows[SetMax({i \in DOMAIN df.rows : df.rows[i].player_id = p})].team_id]

\* a run that ends before the load: the entry written and the steps taken
Aborted(message) == [entry |-> [status |-> "error", message |-> message], steps |-> << >>]

\* lines 174-216: from the loaded tables to the entry
process_loaded_data(tracking_df_loaded, event_df) ==
    Eval(LAMBDA e :
      IF e.raised # "None"
      THEN [entry |-> [status |-> "error", message |-> e.raised],
            steps |-> <<"load_tracking_data", "load_event_data", "enrich_tracking_data">>,
            tracking_df |-> tracking_df_loaded]
      ELSE IF df_empty(e.value)
      THEN [entry |-> [status |-> "error",
                       message |-> "Data enrichment resulted in empty dataset."],
            steps |-> <<"load_tracking_data", "load_event_data", "enrich_tracking_data">>,
            tracking_df |-> tracking_df_loaded]
      ELSE Eval(LAMBDA s :
             IF s.raised # "None"
             THEN [entry |-> [status |-> "error", message |-> s.raised],
                   steps |-> <<"load_tracking_data", "load_event_data",
                               "enrich_tracking_data", "generate_all_player_summaries">>,
                   tracking_df |-> tracking_df_loaded]
             ELSE Eval(LAMBDA player_to_team_map :
                    [entry |-> [status |-> "processed",
                                enriched_tracking_df |-> e.value,
                                player_summaries |-> s.value,
                                team_summaries |->
                                    generate_team_summaries(s.value, player_to_team_map),
                                player_to_team_map |-> player_to_team_map,
                                event_df |-> event_df],
                     steps |-> <<"load_tracking_data", "load_event_data",
                                 "enrich_tracking_data", "generate_all_player_summaries",
                                 "generate_team_summaries">>,
                     tracking_df |-> tracking_df_loaded],
                    get_player_to_team_map(e.value)),
             generate_all_player_summaries(e.value)),
      enrich_tracking_data(tracking_df_loaded, DEFAULT_HIGH_SPEED_THRESHOLD_KMH,
                           DEFAULT_SPRINT_SPEED_THRESHOLD_KMH))

\* a run that goes on to enrichment whatever the loader returned
process_match_data_background_unchecked(match_id, tracking_path, event_path, env) ==
    IF env.STORAGE_TYPE = "azure" /\ ~env.configured
    THEN Aborted("Azure configuration incomplete.")
    ELSE IF env.STORAGE_TYPE = "azure" /\ env.download_fails
    THEN Aborted("download exception")
    ELSE IF env.STORAGE_TYPE = "local" /\ ~env.configured
    THEN Aborted("Local storage path configuration missing.")
    ELSE IF env.STORAGE_TYPE \notin {"azure", "local"}
    THEN Aborted("Invalid storage type: s3")
    ELSE process_loaded_data(load_tracking_data(tracking_path), load_event_data(event_path))

\* the entry a run writes for its match_id last, and the steps it takes
process_match_data_background(match_id, tracking_path, event_path, env) ==
    IF env.STORAGE_TYPE = "azure" /\ ~env.configured
    THEN Aborted("Azure configuration incomplete.")
    ELSE IF env.STORAGE_TYPE = "azure" /\ env.download_fails
    THEN Aborted("download exception")
    ELSE IF env.STORAGE_TYPE = "local" /\ ~env.configured
    THEN Aborted("Local storage path configuration missing.")
    ELSE IF env.STORAGE_TYPE \notin {"azure", "local"}
    THEN Aborted("Invalid storage type: s3")   \* the only other type of StorageConfigs
    ELSE Eval2(LAMBDA tracking_df_loaded, event_df :
                 IF df_empty(tracking_df_loaded)
                 THEN [entry |-> [status |-> "error",
                                  message |-> "Tracking data loading failed."],
                       steps |-> <<"load_tracking_data", "load_event_data">>,
                       tracking_df |-> tracking_df_loaded]
                 ELSE process_loaded_data(tracking_df_loaded, event_df),
               load_tracking_data(tracking_path), load_event_data(event_path))

(***************************************************************************)
(* The endpoints                                                            *)
(***************************************************************************)
HTTPException(status_code, detail) == [status_code |-> status_code, detail |-> detail]

\* the requests of POST /process-match; a request without match_id, which gets
\* a fresh uuid4, is not among them
ProcessMatchRequests ==
    [match_id : MatchIds, tracking_data_path : TrackingFiles, event_data_path : EventFiles]

PlayerIds == {"p1", "p9"}
TeamIds == {"teamA", "teamX"}

\* a POST /process-match that adds the task and leaves the cache alone
process_match_unmarked(request, cache, tasks) ==
    IF ~path_exists(request.tracking_data_path) \/ ~path_exists(request.event_data_path)
    THEN [response |-> HTTPException(404, "Tracking data file not found"),
          cache |-> cache, tasks |-> tasks]
    ELSE [response |-> [status_code |-> 202,
                        message |-> "Match processing started in background.",
                        match_id |-> request.match_id],
          cache |-> cache,
          tasks |-> tasks (+) SetToBag({[match_id |-> request.match_id,
                                         tracking_path |-> request.tracking_data_path,
                                         event_path |-> request.event_data_path]})]

\* a POST /process-match that marks the match pending before it looks at the files
process_match_marks_first(request, cache, tasks) ==
    IF ~path_exists(request.tracking_data_path)
    THEN [response |-> HTTPException(404, "Tracking data file not found"),
          cache |-> (request.match_id :> [status |-> "pending"]) @@ cache, tasks |-> tasks]
    ELSE IF ~path_exists(request.event_data_path)
    THEN [response |-> HTTPException(404, "Event data file not found"),
          cache |-> (request.match_id :> [status |-> "pending"]) @@ cache, tasks |-> tasks]
    ELSE [response |-> [status_code |-> 202,
                        message |-> "Match processing started in background.",
                        match_id |-> request.match_id],
          cache |-> (request.match_id :> [status |-> "pending"]) @@ cache,
          tasks |-> tasks (+) SetToBag({[match_id |-> request.match_id,
                                         tracking_path |-> request.tracking_data_path,
                                         event_path |-> request.event_data_path]})]

\* POST /process-match: the answer, the cache and the tasks it leaves. The tasks
\* that were added and have not run yet are a bag: each runs after the response
\* of its own request, in no order relative to the tasks of other requests
process_match(request, cache, tasks) ==
    IF ~path_exists(request.tracking_data_path)
    THEN [response |-> HTTPException(404, "Tracking data file not found"),
          cache |-> cache, tasks |-> tasks]
    ELSE IF ~path_exists(request.event_data_path)
    THEN [response |-> HTTPException(404, "Event data file not found"),
          cache |-> cache, tasks |-> tasks]
    ELSE [response |-> [status_code |-> 202,
                        message |-> "Match processing started in background.",
                        match_id |-> request.match_id],
          cache |-> (request.match_id :> [status |-> "pending"]) @@ cache,
          tasks |-> tasks (+) SetToBag({[match_id |-> request.match_id,
                                         tracking_path |-> request.tracking_data_path,
                                         event_path |-> request.event_data_path]})]

\* cache_entry is missing or not processed (lines 289, 310, 344)
not_processed(cache, match_id) ==
    match_id \notin DOMAIN cache \/ cache[match_id].status # "processed"

\* GET /match/{match_id}/status
get_match_status(cache, match_id) ==
    IF match_id \notin DOMAIN cache THEN HTTPException(404, "Match ID not found.")
    ELSE [status_code |-> 200, status |-> cache[match_id].status, match_id |-> match_id,
          message |-> IF "message" \in DOMAIN cache[match_id] THEN cache[match_id].message
                      ELSE "None"]

\* a summary that answers for every match_id that has an entry
get_match_summary_of_any_entry(cache, match_id) ==
    IF match_id \notin DOMAIN cache
    THEN HTTPException(404, "Match data not processed or match ID not found.")
    ELSE [status_code |-> 200, match_id |-> match_id,
          players |-> IF "player_summaries" \in DOMAIN cache[match_id]
                      THEN cache[match_id].player_summaries ELSE << >>,
          teams |-> IF "team_summaries" \in DOMAIN cache[match_id]
                    THEN cache[match_id].team_summaries ELSE << >>]

\* GET /match/{match_id}/stats/summary
get_match_summary(cache, match_id) ==
    IF not_processed(cache, match_id)
    THEN HTTPException(404, "Match data not processed or match ID not found.")
    ELSE [status_code |-> 200, match_id |-> match_id,
          players |-> cache[match_id].player_summaries,
          teams |-> cache[match_id].team_summaries]

\* GET /match/{match_id}/player/{player_id}/details
get_player_details(cache, match_id, player_id) ==
    IF not_processed(cache, match_id)
    THEN HTTPException(404, "Match data not processed or match ID not found.")
    ELSE IF df_empty(cache[match_id].enriched_tracking_df)
    THEN HTTPException(404, "Enriched tracking data not available for this match.")
    ELSE Eval(LAMBDA player_df :
                IF df_empty(player_df) THEN HTTPException(404, "Player ID not found in this match.")
                ELSE [status_code |-> 200, match_id |-> match_id, player_id |-> player_id,
                      time_series |-> generate_player_time_series(player_df)],
              player_rows(cache[match_id].enriched_tracking_df, player_id))

\* lines 362-375: the frames of the team
team_frames(enriched_df_cached, player_to_team_map, team_id) ==
    IF "team_id" \notin enriched_df_cached.columns
    THEN loc(enriched_df_cached,
             [i \in DOMAIN enriched_df_cached.rows |->
                 /\ enriched_df_cached.rows[i].player_id \in DOMAIN player_to_team_map
                 /\ player_to_team_map[enriched_df_cached.rows[i].player_id] = team_id])
    ELSE loc(enriched_df_cached,
             [i \in DOMAIN enriched_df_cached.rows |->
                 enriched_df_cached.rows[i].team_id = team_id])

\* GET /match/{match_id}/team/{team_id}/summary-over-time
get_team_summary_over_time(cache, match_id, team_id) ==
    IF not_processed(cache, match_id)
    THEN HTTPException(404, "Match data not processed or match ID not found.")
    ELSE IF df_empty(cache[match_id].enriched_tracking_df)
    THEN HTTPException(404, "Enriched tracking data not available for this match.")
    ELSE Eval(LAMBDA team_df :
                IF df_empty(team_df)
                THEN HTTPException(404, "Team ID not found or no data for this team.")
                ELSE Eval(LAMBDA r :
                            IF r.raised # "None" THEN HTTPException(500, r.raised)
                            ELSE [status_code |-> 200, match_id |-> match_id,
                                  team_id |-> team_id, intervals |-> r.value],
                          generate_team_intervals(team_df, 5)),
              team_frames(cache[match_id].enriched_tracking_df,
                          cache[match_id].player_to_team_map, team_id))

(***************************************************************************)
(* State                                                                    *)
(***************************************************************************)
VARIABLES
    tracking_df,      \* the raw frame table
    pc,               \* "loaded", "enriched", "failed", "summarised", "done"
    enrich_call,      \* the call of enrich_tracking_data: arguments and outcome
    summaries_call,   \* the call of generate_all_player_summaries
    team_call,        \* the call of generate_team_summaries
    interval_call,    \* the call of aggregate_stats_by_interval
    summary_call,     \* a call of calculate_player_summary_stats by itself
    runs,             \* the runs of the whole pipeline on a table, one after the other
    processed_match_data_cache,   \* match_id -> entry, the dict of the API
    background_tasks,             \* the tasks added by process_match that have not run yet
    response,                     \* the answer to the latest request
    background_run                \* the latest run of _process_match_data_background

stats_vars ==
    <<tracking_df, pc, enrich_call, summaries_call, team_call, interval_call, summary_call,
      runs>>

api_vars == <<processed_match_data_cache, background_tasks, response, background_run>>

vars == <<stats_vars, api_vars>>

NoCall == [called |-> FALSE]

InitCalls ==
    /\ pc = "loaded"
    /\ enrich_call = NoCall
    /\ summaries_call = NoCall
    /\ team_call = NoCall
    /\ interval_call = NoCall
    /\ summary_call = NoCall
    /\ runs = << >>
    /\ processed_match_data_cache = << >>
    /\ background_tasks = EmptyBag
    /\ response = NoCall
    /\ background_run = NoCall

\* frames of two players within one second
Init ==
    /\ tracking_df \in Tables(Players, ShortTimestamps)
    /\ InitCalls

\* frames of one player within one second
InitOnePlayer ==
    /\ tracking_df \in Tables({"p1"}, ShortTimestamps)
    /\ InitCalls

\* frames of one player spread over seven minutes
InitIntervals ==
    /\ tracking_df \in Tables({"p1"}, LongTimestamps)
    /\ InitCalls

\* the enriched frames, once enrichment has returned them
enriched_df == enrich_call.value

(***************************************************************************)
(* Operations                                                               *)
(***************************************************************************)
\* enrich_tracking_data(tracking_df, high, sprint) on the loaded table
Enrich ==
    /\ pc = "loaded"
    /\ \E th \in ThresholdPairs :
         \E r \in {enrich_tracking_data(tracking_df, th[1], th[2])} :
             /\ enrich_call' = [called |-> TRUE, dropped |-> {},
                                high_speed_threshold_kmh |-> th[1],
                                sprint_speed_threshold_kmh |-> th[2],
                                raised |-> r.raised, value |-> r.value]
             /\ pc' = IF r.raised = "None" THEN "enriched" ELSE "failed"
    /\ UNCHANGED <<runs, tracking_df, summaries_call, team_call, interval_call, summary_call>>
    /\ UNCHANGED api_vars

\* enrich_tracking_data on the table without one of the columns it requires
EnrichWithout ==
    /\ pc = "loaded"
    /\ \E c \in RequiredColumns :
         \E r \in {enrich_tracking_data(drop(tracking_df, {c}),
                                          DEFAULT_HIGH_SPEED_THRESHOLD_KMH,
                                          DEFAULT_SPRINT_SPEED_THRESHOLD_KMH)} :
             /\ enrich_call' = [called |-> TRUE, dropped |-> {c},
                                high_speed_threshold_kmh |-> DEFAULT_HIGH_SPEED_THRESHOLD_KMH,
                                sprint_speed_threshold_kmh |-> DEFAULT_SPRINT_SPEED_THRESHOLD_KMH,
                                raised |-> r.raised, value |-> r.value]
             /\ pc' = IF r.raised = "None" THEN "enriched" ELSE "failed"
    /\ UNCHANGED <<runs, tracking_df, summaries_call, team_call, interval_call, summary_call>>
    /\ UNCHANGED api_vars

\* generate_all_player_summaries(enriched_df)
GenerateAllPlayerSummaries ==
    /\ pc = "enriched"
    /\ \E r \in {generate_all_player_summaries(enriched_df)} :
           /\ summaries_call' = [called |-> TRUE, raised |-> r.raised, value |-> r.value]
           /\ pc' = IF r.raised = "None" THEN "summarised" ELSE "failed"
    /\ UNCHANGED <<runs, tracking_df, enrich_call, team_call, interval_call, summary_call>>
    /\ UNCHANGED api_vars

\* generate_team_summaries(player_summaries, player_to_team_map)
GenerateTeamSummaries ==
    /\ pc = "summarised"
    /\ \E m \in TeamMaps :
         team_call' = [called |-> TRUE, player_to_team_map |-> m,
                       value |-> generate_team_summaries(summaries_call.value, m)]
    /\ pc' = "done"
    /\ UNCHANGED <<runs, tracking_df, enrich_call, summaries_call, interval_call, summary_call>>
    /\ UNCHANGED api_vars

\* aggregate_stats_by_interval(enriched_df[player_id == p], minutes)
AggregateStatsByInterval ==
    /\ pc = "summarised"
    /\ \E p \in Players, minutes \in IntervalMinutes, cols \in DroppedFromIntervals,
          th \in ThresholdPairs :
         \E data \in {drop(player_rows(enriched_df, p), cols)} :
             /\ data.rows # << >>
             /\ \E g \in {time_interval_group(data, minutes)},
                   r \in {aggregate_stats_by_interval(data, minutes, th[1], th[2],
                             ACCELERATION_THRESHOLD_MS2, DECELERATION_THRESHOLD_MS2)} :
                  interval_call' =
                    [called |-> TRUE, player_id |-> p, time_interval_minutes |-> minutes,
                     dropped |-> cols, data |-> data,
                     high_speed_threshold_kmh |-> th[1],
                     sprint_speed_threshold_kmh |-> th[2],
                     bins |-> g.bins, group |-> g.group,
                     relative_time_s |-> g.relative_time_s,
                     raised |-> r.raised, value |-> r.value]
    /\ pc' = "done"
    /\ UNCHANGED <<runs, tracking_df, enrich_call, summaries_call, team_call, summary_call>>
    /\ UNCHANGED api_vars

\* calculate_player_summary_stats on a player's frames, some columns left out
CalculatePlayerSummaryStats ==
    /\ pc = "enriched"
    /\ \E p \in Players, cols \in DroppedFromSummary, th \in ThresholdPairs :
         \E data \in {drop(player_rows(enriched_df, p), cols)} :
           \E r \in {calculate_player_summary_stats(data, th[1], th[2],
                         ACCELERATION_THRESHOLD_MS2, DECELERATION_THRESHOLD_MS2)} :
             /\ data.rows # << >>
             /\ summary_call' =
                  [called |-> TRUE, player_id |-> p, dropped |-> cols, data |-> data,
                   high_speed_threshold_kmh |-> th[1],
                   sprint_speed_threshold_kmh |-> th[2],
                   raised |-> r.raised, value |-> r.value]
    /\ pc' = "done"
    /\ UNCHANGED <<runs, tracking_df, enrich_call, summaries_call, team_call, interval_call>>
    /\ UNCHANGED api_vars

(***************************************************************************)
(* Specifications: the pipeline run up to one of its consumers              *)
(***************************************************************************)
\* enrichment alone
NextEnrich ==
    \/ Enrich
    \/ EnrichWithout

SpecEnrich == Init /\ [][NextEnrich]_vars

\* enrichment, the player summaries and the team roll-up
NextSummary ==
    \/ Enrich
    \/ GenerateAllPlayerSummaries
    \/ GenerateTeamSummaries

SpecSummary == Init /\ [][NextSummary]_vars

\* enrichment and a summary of one player's frames
NextDirect ==
    \/ Enrich
    \/ CalculatePlayerSummaryStats

SpecDirect == InitOnePlayer /\ [][NextDirect]_vars

\* enrichment, the player summaries and the interval buckets of a player
NextIntervals ==
    \/ Enrich
    \/ GenerateAllPlayerSummaries
    \/ AggregateStatsByInterval

SpecIntervals == InitIntervals /\ [][NextIntervals]_vars

\* a run of the pipeline on the table, with a sprint threshold of the caller
FirstRun ==
    /\ runs = << >>
    /\ \E s \in SprintThresholds :
         \E r \in {run_pipeline(tracking_df, DEFAULT_HIGH_SPEED_THRESHOLD_KMH, s)} :
             runs' = <<r>>
    /\ UNCHANGED <<tracking_df, pc, enrich_call, summaries_call, team_call, interval_call,
                   summary_call>>
    /\ UNCHANGED api_vars

\* another run on the same table, with a sprint threshold of its own
RunAgain ==
    /\ Len(runs) = 1
    /\ \E s \in SprintThresholds :
         \E r \in {run_pipeline(tracking_df, DEFAULT_HIGH_SPEED_THRESHOLD_KMH, s)} :
             runs' = Append(runs, r)
    /\ UNCHANGED <<tracking_df, pc, enrich_call, summaries_call, team_call, interval_call,
                   summary_call>>
    /\ UNCHANGED api_vars

NextThresholds ==
    \/ FirstRun
    \/ RunAgain

SpecThresholds == Init /\ [][NextThresholds]_vars

\* the table goes through enrichment and the player summaries
ProcessFrames ==
    /\ runs = << >>
    /\ \E r \in {process_frames(tracking_df)} : runs' = <<r>>
    /\ UNCHANGED <<tracking_df, pc, enrich_call, summaries_call, team_call, interval_call,
                   summary_call>>
    /\ UNCHANGED api_vars

\* the frames of one player of the table go through them without the others
ProcessFramesOfPlayer ==
    /\ Len(runs) = 1
    /\ \E p \in Players :
         \E r \in {process_frames(player_rows(tracking_df, p))} : runs' = Append(runs, r)
    /\ UNCHANGED <<tracking_df, pc, enrich_call, summaries_call, team_call, interval_call,
                   summary_call>>
    /\ UNCHANGED api_vars

NextPlayers ==
    \/ ProcessFrames
    \/ ProcessFramesOfPlayer

SpecPlayers == Init /\ [][NextPlayers]_vars

NextOverride ==
    \/ Enrich
    \/ CalculatePlayerSummaryStats
    \/ GenerateAllPlayerSummaries
    \/ AggregateStatsByInterval

SpecOverride == InitIntervals /\ [][NextOverride]_vars

(***************************************************************************)
(* aggregate_stats_by_interval on frames that lack columns                  *)
(***************************************************************************)
\* the columns the frames handed to aggregate_stats_by_interval may lack; the
\* last set is every column enrichment adds
DroppedFromUnenriched ==
    {{"timestamp_ms"}, {"speed_kmh"}, {"distance_covered_m"}, {"acceleration_ms2"},
     {"acceleration_ms2", "speed_ms"}, EnrichedColumns \ RawColumns}

\* aggregate_stats_by_interval(frames of p without some columns, minutes)
AggregateStatsByIntervalWithout ==
    /\ pc = "enriched"
    /\ enrich_call.raised = "None"
    /\ \E p \in Players, minutes \in IntervalMinutes, cols \in DroppedFromUnenriched :
         \E data \in {drop(player_rows(enriched_df, p), cols)} :
             /\ data.rows # << >>
             /\ \E r \in {aggregate_stats_by_interval(
                             data, minutes, DEFAULT_HIGH_SPEED_THRESHOLD_KMH,
                             DEFAULT_SPRINT_SPEED_THRESHOLD_KMH,
                             ACCELERATION_THRESHOLD_MS2, DECELERATION_THRESHOLD_MS2)} :
                  interval_call' =
                    [called |-> TRUE, player_id |-> p, time_interval_minutes |-> minutes,
                     dropped |-> cols, data |-> data,
                     high_speed_threshold_kmh |-> DEFAULT_HIGH_SPEED_THRESHOLD_KMH,
                     sprint_speed_threshold_kmh |-> DEFAULT_SPRINT_SPEED_THRESHOLD_KMH,
                     raised |-> r.raised, value |-> r.value]
    /\ pc' = "done"
    /\ UNCHANGED <<runs, tracking_df, enrich_call, summaries_call, team_call, summary_call>>
    /\ UNCHANGED api_vars

NextUnenriched ==
    \/ Enrich
    \/ AggregateStatsByIntervalWithout

SpecUnenriched == InitIntervals /\ [][NextUnenriched]_vars

(***************************************************************************)
(* The pipeline operations called again and again on the same objects       *)
(***************************************************************************)
\* the calls one history makes
MaxCalls == 3

\* the frames the caller's table holds once enrich_tracking_data has written
\* its first columns into the table it was given
frames_after_enrich_in_place(df) ==
    IF df_empty(df) \/ calculate_speed_kmh_raises(df) THEN df ELSE calculate_speed_kmh(df)

\* the frames the caller's table holds once enrich_tracking_data has returned:
\* the columns are written into a copy
frames_after_enrich(df) == df

\* the frames the caller's table holds once aggregate_stats_by_interval has
\* returned: time_s, relative_time_s and time_interval_group go into a copy
frames_after_aggregate(df) == df

\* frames of one player, at the start and after seven minutes
InitStateless ==
    /\ tracking_df \in {t \in Tables({"p1"}, {0, 420000}) :
                           \A i \in DOMAIN t.rows : t.rows[i].smooth_y_speed = Zero}
    /\ InitCalls

\* enrich_tracking_data(tracking_df), again or for the first time
CallEnrich ==
    /\ Len(runs) < MaxCalls
    /\ \E r \in {enrich_tracking_data(tracking_df, DEFAULT_HIGH_SPEED_THRESHOLD_KMH,
                                      DEFAULT_SPRINT_SPEED_THRESHOLD_KMH)},
          after \in {frames_after_enrich(tracking_df)} :
         /\ tracking_df' = after
         /\ enrich_call' = [called |-> TRUE, dropped |-> {},
                            high_speed_threshold_kmh |-> DEFAULT_HIGH_SPEED_THRESHOLD_KMH,
                            sprint_speed_threshold_kmh |-> DEFAULT_SPRINT_SPEED_THRESHOLD_KMH,
                            raised |-> r.raised, value |-> r.value]
         /\ runs' = Append(runs, [operation |-> "enrich_tracking_data",
                                  argument |-> tracking_df, argument_after |-> after,
                                  raised |-> r.raised, value |-> r.value])
    /\ pc' = "enriched"
    /\ UNCHANGED <<summaries_call, team_call, interval_call, summary_call>>
    /\ UNCHANGED api_vars

\* all_summaries[p] = calculate_player_summary_stats(frames of p)
CallPlayerSummary ==
    /\ Len(runs) < MaxCalls
    /\ enrich_call.called
    /\ \E p \in players_of(enriched_df) :
         \E data \in {player_rows(enriched_df, p)} :
           \E r \in {calculate_player_summary_stats(
                         data, DEFAULT_HIGH_SPEED_THRESHOLD_KMH,
                         DEFAULT_SPRINT_SPEED_THRESHOLD_KMH,
                         ACCELERATION_THRESHOLD_MS2, DECELERATION_THRESHOLD_MS2)} :
             /\ r.raised = "None"
             /\ summaries_call' =
                  [called |-> TRUE, raised |-> "None",
                   value |-> (p :> r.value) @@
                             (IF summaries_call.called THEN summaries_call.value ELSE << >>)]
             /\ runs' = Append(runs, [operation |-> "calculate_player_summary_stats",
                                      argument |-> data, argument_after |-> data,
                                      raised |-> r.raised, value |-> r.value])
    /\ UNCHANGED <<pc, tracking_df, enrich_call, team_call, interval_call, summary_call>>
    /\ UNCHANGED api_vars

\* aggregate_stats_by_interval(frames of p, minutes)
CallAggregate ==
    /\ Len(runs) < MaxCalls
    /\ enrich_call.called
    /\ \E p \in players_of(enriched_df), minutes \in IntervalMinutes :
         \E data \in {player_rows(enriched_df, p)} :
           \E r \in {aggregate_stats_by_interval(
                         data, minutes, DEFAULT_HIGH_SPEED_THRESHOLD_KMH,
                         DEFAULT_SPRINT_SPEED_THRESHOLD_KMH,
                         ACCELERATION_THRESHOLD_MS2, DECELERATION_THRESHOLD_MS2)},
              after \in {frames_after_aggregate(data)} :
             /\ interval_call' =
                  [called |-> TRUE, player_id |-> p, time_interval_minutes |-> minutes,
                   dropped |-> {}, data |-> data, raised |-> r.raised, value |-> r.value]
             /\ runs' = Append(runs, [operation |-> "aggregate_stats_by_interval",
                                      argument |-> <<data, minutes>>,
                                      argument_after |-> <<after, minutes>>,
                                      raised |-> r.raised, value |-> r.value])
    /\ UNCHANGED <<pc, tracking_df, enrich_call, summaries_call, team_call, summary_call>>
    /\ UNCHANGED api_vars

\* generate_team_summaries(all_summaries, player_to_team_map)
CallTeamSummaries ==
    /\ Len(runs) < MaxCalls
    /\ summaries_call.called
    /\ \E m \in {get_player_to_team_map(enriched_df)} :
         \E v \in {generate_team_summaries(summaries_call.value, m)} :
             /\ team_call' = [called |-> TRUE, player_to_team_map |-> m, value |-> v]
             /\ runs' = Append(runs, [operation |-> "generate_team_summaries",
                                      argument |-> <<summaries_call.value, m>>,
                                      argument_after |-> <<summaries_call.value, m>>,
                                      raised |-> "None", value |-> v])
    /\ UNCHANGED <<pc, tracking_df, enrich_call, summaries_call, interval_call, summary_call>>
    /\ UNCHANGED api_vars

NextStateless ==
    \/ CallEnrich
    \/ CallPlayerSummary
    \/ CallAggregate
    \/ CallTeamSummaries

SpecStateless == InitStateless /\ [][NextStateless]_vars

(***************************************************************************)
(* The two interval aggregators on the same frames                          *)
(***************************************************************************)
\* frames of two players at the start and seven minutes later, at 25.2 km/h or
\* at 30 km/h
InitTeamIntervals ==
    /\ tracking_df \in {t \in Tables(Players, {0, 420000}) :
                           \A i \in DOMAIN t.rows : t.rows[i].smooth_y_speed = Zero}
    /\ InitCalls

\* generate_team_intervals on the enriched frames of a team: p1 alone, or both
\* players
GenerateTeamIntervals ==
    /\ pc = "enriched"
    /\ enrich_call.raised = "None"
    /\ \E P \in {{"p1"}, Players}, minutes \in IntervalMinutes :
         \E data \in {loc(enriched_df, [i \in DOMAIN enriched_df.rows |->
                                           enriched_df.rows[i].player_id \in P])} :
             /\ data.rows # << >>
             /\ \E r \in {generate_team_intervals(data, minutes)} :
                  team_call' = [called |-> TRUE, time_interval_minutes |-> minutes,
                                data |-> data, raised |-> r.raised, value |-> r.value]
    /\ pc' = "team_intervals"
    /\ UNCHANGED <<runs, tracking_df, enrich_call, summaries_call, interval_call, summary_call>>
    /\ UNCHANGED api_vars

\* aggregate_stats_by_interval on the frames and the width of that call, with
\* the default thresholds
AggregateStatsByIntervalOfTeam ==
    /\ pc = "team_intervals"
    /\ \E g \in {time_interval_group(team_call.data, team_call.time_interval_minutes)},
          r \in {aggregate_stats_by_interval(
                    team_call.data, team_call.time_interval_minutes,
                    DEFAULT_HIGH_SPEED_THRESHOLD_KMH, DEFAULT_SPRINT_SPEED_THRESHOLD_KMH,
                    ACCELERATION_THRESHOLD_MS2, DECELERATION_THRESHOLD_MS2)} :
         interval_call' =
           [called |-> TRUE, player_id |-> "team",
            time_interval_minutes |-> team_call.time_interval_minutes,
            dropped |-> {}, data |-> team_call.data,
            high_speed_threshold_kmh |-> DEFAULT_HIGH_SPEED_THRESHOLD_KMH,
            sprint_speed_threshold_kmh |-> DEFAULT_SPRINT_SPEED_THRESHOLD_KMH,
            bins |-> g.bins, group |-> g.group, relative_time_s |-> g.relative_time_s,
            raised |-> r.raised, value |-> r.value]
    /\ pc' = "done"
    /\ UNCHANGED <<runs, tracking_df, enrich_call, summaries_call, team_call, summary_call>>
    /\ UNCHANGED api_vars

NextTeamIntervals ==
    \/ Enrich
    \/ GenerateTeamIntervals
    \/ AggregateStatsByIntervalOfTeam

SpecTeamIntervals == InitTeamIntervals /\ [][NextTeamIntervals]_vars

(***************************************************************************)
(* Requests and background tasks of the API                                 *)
(***************************************************************************)
InitApi ==
    /\ tracking_df = MatchTable
    /\ InitCalls

\* POST /process-match
ProcessMatch ==
    /\ BagCardinality(background_tasks) < MaxQueuedTasks
    /\ \E request \in ProcessMatchRequests :
         \E r \in {process_match(request, processed_match_data_cache, background_tasks)} :
            /\ response' = [called |-> TRUE, endpoint |-> "process_match",
                            request |-> request] @@ r.response
            /\ processed_match_data_cache' = r.cache
            /\ background_tasks' = r.tasks
    /\ UNCHANGED <<background_run, stats_vars>>

\* a task that was added runs, from its first line to its last; background_run
\* keeps the steps it took and the number of frames its loader returned (-1
\* when it ended before loading)
ProcessMatchDataBackground ==
    /\ \E task \in BagToSet(background_tasks), env \in StorageConfigs :
         \E r \in {process_match_data_background(task.match_id, task.tracking_path,
                                                  task.event_path, env)} :
            /\ processed_match_data_cache' =
                  (task.match_id :> r.entry) @@ processed_match_data_cache
            /\ background_run' =
                  [called |-> TRUE, match_id |-> task.match_id, steps |-> r.steps,
                   tracking_frames |-> IF r.steps = << >> THEN -1
                                       ELSE Len(r.tracking_df.rows)]
            /\ background_tasks' = background_tasks (-) SetToBag({task})
    /\ UNCHANGED <<response, stats_vars>>

GetMatchStatus ==
    /\ \E match_id \in MatchIds :
          response' = [called |-> TRUE, endpoint |-> "get_match_status",
                       request |-> [match_id |-> match_id]]
                          @@ get_match_status(processed_match_data_cache, match_id)
    /\ UNCHANGED <<processed_match_data_cache, background_tasks, background_run, stats_vars>>

GetMatchSummary ==
    /\ \E match_id \in MatchIds :
          response' = [called |-> TRUE, endpoint |-> "get_match_summary",
                       request |-> [match_id |-> match_id]]
                          @@ get_match_summary(processed_match_data_cache, match_id)
    /\ UNCHANGED <<processed_match_data_cache, background_tasks, background_run, stats_vars>>

GetPlayerDetails ==
    /\ \E match_id \in MatchIds, player_id \in PlayerIds :
          response' = [called |-> TRUE, endpoint |-> "get_player_details",
                       request |-> [match_id |-> match_id, player_id |-> player_id]]
                          @@ get_player_details(processed_match_data_cache, match_id, player_id)
    /\ UNCHANGED <<processed_match_data_cache, background_tasks, background_run, stats_vars>>

GetTeamSummaryOverTime ==
    /\ \E match_id \in MatchIds, team_id \in TeamIds :
          response' = [called |-> TRUE, endpoint |-> "get_team_summary_over_time",
                       request |-> [match_id |-> match_id, team_id |-> team_id]]
                          @@ get_team_summary_over_time(processed_match_data_cache, match_id,
                                                        team_id)
    /\ UNCHANGED <<processed_match_data_cache, background_tasks, background_run, stats_vars>>

NextApi ==
    \/ ProcessMatch
    \/ ProcessMatchDataBackground
    \/ GetMatchStatus
    \/ GetMatchSummary
    \/ GetPlayerDetails
    \/ GetTeamSummaryOverTime

SpecApi == InitApi /\ [][NextApi]_vars

(***************************************************************************)
(* One run of _process_match_data_background, statement by statement        *)
(***************************************************************************)
\* the tracking files of the tasks that wait when the runs begin
RunTrackingFiles ==
    {"tracking.parquet", "no_xy.parquet", "no_player_id.parquet", "no_team_id.parquet"}

RunTasks ==
    [match_id : MatchIds, tracking_path : RunTrackingFiles, event_path : {"events.parquet"}]

\* the tasks of a list of accepted requests, as a bag
BagOfTasks(q) ==
    [t \in {q[i] : i \in DOMAIN q} |-> Cardinality({i \in DOMAIN q : q[i] = t})]

\* the state accepted requests leave: their tasks wait, their matches are pending
InitRun ==
    /\ tracking_df = MatchTable
    /\ pc = "loaded"
    /\ enrich_call = NoCall
    /\ summaries_call = NoCall
    /\ team_call = NoCall
    /\ interval_call = NoCall
    /\ summary_call = NoCall
    /\ runs = << >>
    /\ response = NoCall
    /\ background_run = NoCall
    /\ \E q \in UNION {[1..n -> RunTasks] : n \in 1..MaxQueuedTasks} :
          /\ background_tasks = BagOfTasks(q)
          /\ processed_match_data_cache =
                [m \in {q[i].match_id : i \in DOMAIN q} |-> [status |-> "pending"]]

\* lines 83-154: the message of the entry the run ends with before it loads
\* anything, "None" when the storage is usable
storage_error(env) ==
    IF env.STORAGE_TYPE = "azure" /\ ~env.configured THEN "Azure configuration incomplete."
    ELSE IF env.STORAGE_TYPE = "azure" /\ env.download_fails THEN "download exception"
    ELSE IF env.STORAGE_TYPE = "local" /\ ~env.configured
    THEN "Local storage path configuration missing."
    ELSE IF env.STORAGE_TYPE \notin {"azure", "local"} THEN "Invalid storage type: s3"
    ELSE "None"

\* an error written into the entry that is there, as by
\* processed_match_data_cache[match_id].update(...)
UpdateWithError(message, steps) ==
    /\ processed_match_data_cache' =
          (background_run.match_id :>
              ([status |-> "error", message |-> message]
                  @@ processed_match_data_cache[background_run.match_id]))
              @@ processed_match_data_cache
    /\ background_run' = [pc |-> "done", steps |-> steps,
                          writes |-> background_run.writes + 1] @@ background_run

\* an early return that leaves the entry as it was
ReturnWithoutError(message, steps) ==
    /\ UNCHANGED processed_match_data_cache
    /\ background_run' = [pc |-> "done", steps |-> steps,
                          writes |-> background_run.writes] @@ background_run

\* the run stores an error entry for its match and returns (lines 98-105,
\* 132-138, 148-154, 168-172, 181-185, 214-216)
EndWithError(message, steps) ==
    /\ processed_match_data_cache' =
          (background_run.match_id :> [status |-> "error", message |-> message])
              @@ processed_match_data_cache
    /\ background_run' = [pc |-> "done", steps |-> steps,
                          writes |-> background_run.writes + 1] @@ background_run

\* a loop that hands over its summaries as soon as it has one
summaries_started(all_summaries, enriched_tracking_df) ==
    DOMAIN all_summaries # {}

\* the for loop of generate_all_player_summaries has visited every group
summaries_complete(all_summaries, enriched_tracking_df) ==
    DOMAIN all_summaries = players_of(enriched_tracking_df)

\* lines 72-154: a task starts and settles where its files are
BeginRun ==
    /\ IF background_run.called THEN background_run.pc = "done" ELSE TRUE
    /\ \E task \in BagToSet(background_tasks), env \in StorageConfigs :
          /\ background_tasks' = background_tasks (-) SetToBag({task})
          /\ IF storage_error(env) # "None"
             THEN /\ processed_match_data_cache' =
                        (task.match_id :> [status |-> "error", message |-> storage_error(env)])
                            @@ processed_match_data_cache
                  /\ background_run' =
                        [called |-> TRUE, pc |-> "done", match_id |-> task.match_id,
                         tracking_path |-> task.tracking_path, event_path |-> task.event_path,
                         env |-> env, steps |-> << >>,
                         writes |-> IF env.download_fails THEN 2 ELSE 1]
             ELSE /\ background_run' =
                        [called |-> TRUE, pc |-> "load", match_id |-> task.match_id,
                         tracking_path |-> task.tracking_path, event_path |-> task.event_path,
                         env |-> env, steps |-> << >>, writes |-> 0]
                  /\ UNCHANGED processed_match_data_cache
    /\ UNCHANGED <<response, stats_vars>>

\* lines 159-172
LoadData ==
    /\ background_run.called
    /\ background_run.pc = "load"
    /\ \E loaded \in {load_tracking_data(background_run.tracking_path)},
          event_df \in {load_event_data(background_run.event_path)} :
          IF df_empty(loaded)
          THEN EndWithError("Tracking data loading failed.",
                            <<"load_tracking_data", "load_event_data">>)
          ELSE /\ background_run' =
                     [pc |-> "enrich", steps |-> <<"load_tracking_data", "load_event_data">>,
                      tracking_df |-> loaded, event_df |-> event_df] @@ background_run
               /\ UNCHANGED processed_match_data_cache
    /\ UNCHANGED <<background_tasks, response, stats_vars>>

\* lines 174-185
EnrichData ==
    /\ background_run.called
    /\ background_run.pc = "enrich"
    /\ \E e \in {enrich_tracking_data(background_run.tracking_df,
                                      DEFAULT_HIGH_SPEED_THRESHOLD_KMH,
                                      DEFAULT_SPRINT_SPEED_THRESHOLD_KMH)} :
          IF e.raised # "None"
          THEN EndWithError(e.raised, Append(background_run.steps, "enrich_tracking_data"))
          ELSE IF df_empty(e.value)
          THEN EndWithError("Data enrichment resulted in empty dataset.",
                            Append(background_run.steps, "enrich_tracking_data"))
          ELSE /\ background_run' =
                     [pc |-> "summaries",
                      steps |-> Append(background_run.steps, "enrich_tracking_data"),
                      enriched_df |-> e.value, player_summaries |-> << >>] @@ background_run
               /\ UNCHANGED processed_match_data_cache
    /\ UNCHANGED <<background_tasks, response, stats_vars>>

\* line 188 and stats_calculator.py 353-360: the next group of the loop
SummarisePlayer ==
    /\ background_run.called
    /\ background_run.pc = "summaries"
    /\ IF "player_id" \notin background_run.enriched_df.columns
       THEN EndWithError("ValueError",
                         Append(background_run.steps, "generate_all_player_summaries"))
       ELSE \E player_id \in players_of(background_run.enriched_df)
                                \ DOMAIN background_run.player_summaries :
               /\ \A q \in players_of(background_run.enriched_df)
                              \ DOMAIN background_run.player_summaries :
                     PlayerRank[player_id] <= PlayerRank[q]
               /\ \E s \in {default_summary(player_rows(background_run.enriched_df,
                                                        player_id))} :
                     IF s.raised # "None"
                     THEN EndWithError(s.raised,
                                       IF background_run.player_summaries = << >>
                                       THEN Append(background_run.steps,
                                                   "generate_all_player_summaries")
                                       ELSE background_run.steps)
                     ELSE /\ background_run' =
                                [steps |-> IF background_run.player_summaries = << >>
                                           THEN Append(background_run.steps,
                                                       "generate_all_player_summaries")
                                           ELSE background_run.steps,
                                 player_summaries |->
                                     (player_id :> s.value) @@ background_run.player_summaries]
                                    @@ background_run
                          /\ UNCHANGED processed_match_data_cache
    /\ UNCHANGED <<background_tasks, response, stats_vars>>

\* lines 190-201, once generate_all_player_summaries has returned
TeamSummaries ==
    /\ background_run.called
    /\ background_run.pc = "summaries"
    /\ summaries_complete(background_run.player_summaries, background_run.enriched_df)
    /\ \E player_to_team_map \in {get_player_to_team_map(background_run.enriched_df)} :
          background_run' =
             [pc |-> "store", steps |-> Append(background_run.steps, "generate_team_summaries"),
              player_to_team_map |-> player_to_team_map,
              team_summaries |-> generate_team_summaries(background_run.player_summaries,
                                                         player_to_team_map)] @@ background_run
    /\ UNCHANGED <<processed_match_data_cache, background_tasks, response, stats_vars>>

\* lines 203-212
StoreResults ==
    /\ background_run.called
    /\ background_run.pc = "store"
    /\ processed_match_data_cache' =
          (background_run.match_id :>
              [status |-> "processed",
               enriched_tracking_df |-> background_run.enriched_df,
               player_summaries |-> background_run.player_summaries,
               team_summaries |-> background_run.team_summaries,
               player_to_team_map |-> background_run.player_to_team_map,
               event_df |-> background_run.event_df]) @@ processed_match_data_cache
    /\ background_run' = [pc |-> "done", writes |-> background_run.writes + 1]
                            @@ background_run
    /\ UNCHANGED <<background_tasks, response, stats_vars>>

NextRun ==
    \/ BeginRun
    \/ LoadData
    \/ EnrichData
    \/ SummarisePlayer
    \/ TeamSummaries
    \/ StoreResults

SpecRun == InitRun /\ [][NextRun]_vars

\* a task the event loop has taken up runs to its end, and a task that waits
\* is taken up: the function awaits nothing and its loops are over finite data
SpecRunFair == SpecRun /\ WF_vars(NextRun)

(***************************************************************************)
(* Properties                                                               *)
(***************************************************************************)
EnrichReturned == enrich_call.called /\ enrich_call.raised = "None"
SummariesReturned == summaries_call.called /\ summaries_call.raised = "None"
IntervalsReturned == interval_call.called /\ interval_call.raised = "None"

\* the rows of the enriched table that belong to player p
RowsOf(p) == {i \in DOMAIN enriched_df.rows : enriched_df.rows[i].player_id = p}

RECURSIVE DistanceOver(_)
\* the distance_covered_m of the enriched rows I, added up
DistanceOver(I) ==
    IF I = {} THEN Zero
    ELSE RAdd(enriched_df.rows[SetMax(I)].distance_covered_m, DistanceOver(I \ {SetMax(I)}))

\* the frames given to aggregate_stats_by_interval: first timestamp, span, width (ms)
IntervalFirstMs == SeqMinInt(column(interval_call.data, "timestamp_ms"))
IntervalSpanMs == SeqMaxInt(column(interval_call.data, "timestamp_ms")) - IntervalFirstMs
IntervalWidthMs == interval_call.time_interval_minutes * 60000
IntervalBuckets == interval_call.value

RECURSIVE BucketDistanceTo(_)
BucketDistanceTo(n) ==
    IF n = 0 THEN Zero ELSE RAdd(BucketDistanceTo(n - 1), IntervalBuckets[n].distance_m)

\* C1: the distance_m of the buckets aggregate_stats_by_interval returns for a
\* player adds up to the total_distance_m of the player's summary of the same
\* frames, also when the span of the frames is a multiple of the bucket width.
C1_BucketDistancesSumToTotal ==
    IntervalsReturned =>
        BucketDistanceTo(Len(IntervalBuckets))
            = summaries_call.value[interval_call.player_id].total_distance_m

\* frame i of the aggregated frames lies in the window of bucket k
InWindow(i, k) ==
    /\ RLe(IntervalBuckets[k].interval_start_time_s,
           Rat(interval_call.data.rows[i].timestamp_ms, 1000))
    /\ RLt(Rat(interval_call.data.rows[i].timestamp_ms, 1000),
           IntervalBuckets[k].interval_end_time_s)

\* C2: every frame given to aggregate_stats_by_interval is a member of exactly
\* one bucket, the one whose half-open window holds the frame's time; the
\* frame with the largest timestamp too.
C2_EveryFrameInItsBucket ==
    IntervalsReturned =>
        \A i \in DOMAIN interval_call.data.rows :
            /\ interval_call.group[i] \in DOMAIN IntervalBuckets
            /\ \A k \in DOMAIN IntervalBuckets : (interval_call.group[i] = k) <=> InWindow(i, k)

SpanNotMultiple == IntervalsReturned /\ IntervalSpanMs % IntervalWidthMs # 0
CeilSpanOverWidth == (IntervalSpanMs + IntervalWidthMs - 1) \div IntervalWidthMs
ScenarioD ==
    /\ IntervalsReturned
    /\ interval_call.time_interval_minutes = 5
    /\ IntervalFirstMs = 0
    /\ IntervalSpanMs = 420000

FirstOfPlayer(i) ==
    \A j \in RowsOf(enriched_df.rows[i].player_id) :
        \/ enriched_df.rows[i].timestamp_ms < enriched_df.rows[j].timestamp_ms
        \/ /\ enriched_df.rows[i].timestamp_ms = enriched_df.rows[j].timestamp_ms
           /\ enriched_df.rows[i].index <= enriched_df.rows[j].index

\* C4: in the output of enrich_tracking_data the first frame of every player
\* has distance_covered_m = 0 and acceleration_ms2 = 0, whatever frames of
\* other players stand before it in the sorted table.
C4_FirstFrameOfPlayerIsZero ==
    EnrichReturned =>
        \A i \in DOMAIN enriched_df.rows :
            FirstOfPlayer(i) =>
                /\ enriched_df.rows[i].distance_covered_m = Zero
                /\ enriched_df.rows[i].acceleration_ms2 = Zero

\* the first frame of p2 stands behind a frame of p1 that has another
\* position, speed and timestamp
C4_Witness ==
    /\ EnrichReturned
    /\ \E i \in DOMAIN enriched_df.rows :
          /\ i > 1
          /\ FirstOfPlayer(i)
          /\ enriched_df.rows[i].player_id = "p2"
          /\ enriched_df.rows[i - 1].player_id = "p1"
          /\ enriched_df.rows[i - 1].x # enriched_df.rows[i].x
          /\ enriched_df.rows[i - 1].speed_ms # enriched_df.rows[i].speed_ms
          /\ enriched_df.rows[i - 1].timestamp_ms # enriched_df.rows[i].timestamp_ms

\* what C5 says of the flags of row i, but for its last sentence
FlagsAsDefined(i) ==
    /\ ~(enriched_df.rows[i].is_sprinting /\ enriched_df.rows[i].is_high_intensity_running)
    /\ enriched_df.rows[i].is_sprinting
          <=> RGt(enriched_df.rows[i].speed_kmh, enrich_call.sprint_speed_threshold_kmh)
    /\ enriched_df.rows[i].is_high_intensity_running
          <=> /\ RLt(enrich_call.high_speed_threshold_kmh, enriched_df.rows[i].speed_kmh)
              /\ RLe(enriched_df.rows[i].speed_kmh, enrich_call.sprint_speed_threshold_kmh)

\* C5 as claimed: for any pair of thresholds the two flags are never both
\* true, is_sprinting is speed > sprint threshold, is_high_intensity_running
\* is running threshold < speed <= sprint threshold, and a frame whose speed
\* equals the sprint threshold is high-intensity running and not sprinting.
C5_FlagsAtSprintThresholdAreHir ==
    EnrichReturned =>
        \A i \in DOMAIN enriched_df.rows :
            /\ FlagsAsDefined(i)
            /\ enriched_df.rows[i].speed_kmh = enrich_call.sprint_speed_threshold_kmh =>
                  /\ enriched_df.rows[i].is_high_intensity_running
                  /\ ~enriched_df.rows[i].is_sprinting

\* C5 amended: as claimed, but a frame whose speed equals the sprint threshold
\* is not sprinting, and is high-intensity running exactly when the sprint
\* threshold is above the running threshold.
C5_FlagsExclusive ==
    EnrichReturned =>
        \A i \in DOMAIN enriched_df.rows :
            /\ FlagsAsDefined(i)
            /\ enriched_df.rows[i].speed_kmh = enrich_call.sprint_speed_threshold_kmh =>
                  /\ ~enriched_df.rows[i].is_sprinting
                  /\ enriched_df.rows[i].is_high_intensity_running
                        <=> RLt(enrich_call.high_speed_threshold_kmh,
                                enrich_call.sprint_speed_threshold_kmh)

\* a sprint threshold below the running threshold, a frame at the sprint
\* threshold and a frame above both thresholds
C5_Witness ==
    /\ EnrichReturned
    /\ RLt(enrich_call.sprint_speed_threshold_kmh, enrich_call.high_speed_threshold_kmh)
    /\ \E i \in DOMAIN enriched_df.rows :
          enriched_df.rows[i].speed_kmh = enrich_call.sprint_speed_threshold_kmh
    /\ \E i \in DOMAIN enriched_df.rows : enriched_df.rows[i].is_sprinting

\* C6: total_distance_m of a player's summary is the sum of distance_covered_m
\* over the player's enriched frames, the high-intensity and the sprint total
\* the sums over the frames that carry the flag, and the two together never
\* exceed total_distance_m.
C6_SummaryDistancesAreSums ==
    SummariesReturned =>
        \A p \in DOMAIN summaries_call.value :
            /\ summaries_call.value[p].total_distance_m = DistanceOver(RowsOf(p))
            /\ summaries_call.value[p].total_high_intensity_running_distance_m
                  = DistanceOver({i \in RowsOf(p) :
                                     enriched_df.rows[i].is_high_intensity_running})
            /\ summaries_call.value[p].total_sprint_distance_m
                  = DistanceOver({i \in RowsOf(p) : enriched_df.rows[i].is_sprinting})
            /\ RLe(RAdd(summaries_call.value[p].total_high_intensity_running_distance_m,
                        summaries_call.value[p].total_sprint_distance_m),
                   summaries_call.value[p].total_distance_m)

\* a player with high-intensity distance and sprint distance
C6_Witness ==
    /\ SummariesReturned
    /\ \E p \in DOMAIN summaries_call.value :
          /\ RGt(summaries_call.value[p].total_sprint_distance_m, Zero)
          /\ RGt(summaries_call.value[p].total_high_intensity_running_distance_m, Zero)
          /\ summaries_call.value[p].total_distance_m
                = RAdd(summaries_call.value[p].total_high_intensity_running_distance_m,
                       summaries_call.value[p].total_sprint_distance_m)

\* the frame of the same player that stands before row i (0: none)
Predecessor(i) ==
    IF \E j \in RowsOf(enriched_df.rows[i].player_id) : j < i
    THEN SetMax({j \in RowsOf(enriched_df.rows[i].player_id) : j < i})
    ELSE 0

SameTimestampAsPredecessor(i) ==
    /\ Predecessor(i) # 0
    /\ enriched_df.rows[Predecessor(i)].timestamp_ms = enriched_df.rows[i].timestamp_ms

\* C7: a frame with the timestamp_ms of the frame of the same player before it
\* has acceleration_ms2 = 0, with equal speeds (0/0) and with different
\* speeds (x/0); no enriched frame has a NaN or infinite acceleration.
C7_NoNonFiniteAcceleration ==
    EnrichReturned =>
        \A i \in DOMAIN enriched_df.rows :
            /\ IsFinite(enriched_df.rows[i].acceleration_ms2)
            /\ SameTimestampAsPredecessor(i) => enriched_df.rows[i].acceleration_ms2 = Zero

\* one table with a 0/0 frame and an x/0 frame
C7_Witness ==
    /\ EnrichReturned
    /\ \E i \in DOMAIN enriched_df.rows :
          /\ SameTimestampAsPredecessor(i)
          /\ enriched_df.rows[Predecessor(i)].speed_ms = enriched_df.rows[i].speed_ms
    /\ \E i \in DOMAIN enriched_df.rows :
          /\ SameTimestampAsPredecessor(i)
          /\ enriched_df.rows[Predecessor(i)].speed_ms # enriched_df.rows[i].speed_ms

\* C8: enrich_tracking_data on a table that has rows and lacks one of
\* player_id, timestamp_ms, x, y, smooth_x_speed, smooth_y_speed raises and
\* returns no frames, whichever column is the missing one.
C8_MissingColumnRaises ==
    (enrich_call.called /\ enrich_call.dropped # {} /\ tracking_df.rows # << >>) =>
        /\ enrich_call.raised = "ValueError"
        /\ enrich_call.value.rows = << >>
        /\ pc = "failed"

\* a table with rows, enriched without its timestamp_ms
C8_Witness ==
    /\ enrich_call.called
    /\ enrich_call.dropped = {"timestamp_ms"}
    /\ Len(tracking_df.rows) = MaxFrames
    /\ enrich_call.raised = "ValueError"

SummaryRaised == summary_call.called /\ summary_call.raised # "None"

\* C9 as claimed: calculate_player_summary_stats on frames that lack speed_kmh,
\* distance_covered_m or acceleration_ms2 raises, also when acceleration_ms2
\* is absent and speed_ms, timestamp_ms and player_id are present.
C9_MissingDerivedFieldRaises ==
    (/\ summary_call.called
     /\ ~({"speed_kmh", "distance_covered_m", "acceleration_ms2"}
             \subseteq summary_call.data.columns)) => SummaryRaised

\* the accelerations of player p as enrich_tracking_data computed them
AccelerationsOf(p) ==
    Cardinality({i \in RowsOf(p) :
                    RGt(enriched_df.rows[i].acceleration_ms2, ACCELERATION_THRESHOLD_MS2)})

\* C9 amended: calculate_player_summary_stats raises when speed_kmh or
\* distance_covered_m is absent, and when acceleration_ms2 is absent together
\* with one of speed_ms, timestamp_ms, player_id; when acceleration_ms2 is
\* absent and these three are present it computes the acceleration itself and
\* returns the summary.
C9_RaisesUnlessAccelerationRecomputable ==
    summary_call.called =>
        /\ SummaryRaised
              <=> \/ "speed_kmh" \notin summary_call.data.columns
                  \/ "distance_covered_m" \notin summary_call.data.columns
                  \/ /\ "acceleration_ms2" \notin summary_call.data.columns
                     /\ ~({"speed_ms", "timestamp_ms", "player_id"}
                             \subseteq summary_call.data.columns)
        /\ summary_call.dropped = {"acceleration_ms2"} =>
              summary_call.value.num_accelerations
                  = Int2R(AccelerationsOf(summary_call.player_id))

\* a summary with an acceleration counted from frames without acceleration_ms2
C9_Witness ==
    /\ summary_call.called
    /\ summary_call.dropped = {"acceleration_ms2"}
    /\ summary_call.raised = "None"
    /\ RGt(summary_call.value.num_accelerations, Zero)

\* the players with a summary that the map of the call puts in team t
TeamPlayers(t) ==
    {p \in DOMAIN summaries_call.value :
        IF p \in DOMAIN team_call.player_to_team_map
        THEN team_call.player_to_team_map[p] = t
        ELSE t = "UnknownTeam"}

RECURSIVE StatOver(_, _)
\* the statistic col of the summaries of the players P, added up
StatOver(P, col) ==
    IF P = {} THEN Zero
    ELSE RAdd(summaries_call.value[CHOOSE p \in P : TRUE][col],
              StatOver(P \ {CHOOSE p \in P : TRUE}, col))

\* C10: every statistic of a team is reduced over the summaries of the
\* players mapped to the team: avg_speed_kmh with mean, max_speed_kmh with
\* max, duration_minutes and every other field with sum.
C10_TeamReducers ==
    team_call.called =>
        \A t \in DOMAIN team_call.value :
            /\ TeamPlayers(t) # {}
            /\ \A col \in SummaryFields \ {"avg_speed_kmh", "max_speed_kmh"} :
                  team_call.value[t][col] = StatOver(TeamPlayers(t), col)
            /\ team_call.value[t].avg_speed_kmh
                  = RDiv(StatOver(TeamPlayers(t), "avg_speed_kmh"),
                         Int2R(Cardinality(TeamPlayers(t))))
            /\ \E p \in TeamPlayers(t) :
                  team_call.value[t].max_speed_kmh = summaries_call.value[p].max_speed_kmh
            /\ \A p \in TeamPlayers(t) :
                  RLe(summaries_call.value[p].max_speed_kmh, team_call.value[t].max_speed_kmh)

\* a team of two players whose statistics differ
C10_Witness ==
    /\ team_call.called
    /\ \E t \in DOMAIN team_call.value :
          /\ TeamPlayers(t) = {"p1", "p2"}
          /\ summaries_call.value["p1"].total_distance_m
                # summaries_call.value["p2"].total_distance_m
          /\ summaries_call.value["p1"].avg_speed_kmh # summaries_call.value["p2"].avg_speed_kmh
          /\ summaries_call.value["p1"].max_speed_kmh # summaries_call.value["p2"].max_speed_kmh
          /\ summaries_call.value["p1"].duration_minutes
                # summaries_call.value["p2"].duration_minutes

\* the team key generate_team_summaries gives player p under the map of the call
TeamKeyOf(p) ==
    IF p \in DOMAIN team_call.player_to_team_map
    THEN team_call.player_to_team_map[p]
    ELSE "UnknownTeam"

RECURSIVE TeamStatOver(_, _)
\* the statistic col of the team summaries T, added up
TeamStatOver(T, col) ==
    IF T = {} THEN Zero
    ELSE RAdd(team_call.value[CHOOSE t \in T : TRUE][col],
              TeamStatOver(T \ {CHOOSE t \in T : TRUE}, col))

\* C11: generate_team_summaries drops no player: the team keys of its output
\* are the team keys of the players with a summary, "UnknownTeam" standing for
\* the players without an entry in the map and present only when there is
\* one, and every sum-reduced statistic adds up over the teams to what it adds
\* up to over the players.
C11_NoPlayerDropped ==
    team_call.called =>
        /\ DOMAIN team_call.value = {TeamKeyOf(p) : p \in DOMAIN summaries_call.value}
        /\ ("UnknownTeam" \in DOMAIN team_call.value)
              <=> (DOMAIN summaries_call.value \ DOMAIN team_call.player_to_team_map # {})
        /\ \A col \in SummaryFields \ {"avg_speed_kmh", "max_speed_kmh"} :
              TeamStatOver(DOMAIN team_call.value, col)
                  = StatOver(DOMAIN summaries_call.value, col)

\* a mapped and an unmapped player, both with distance, in two teams
C11_Witness ==
    /\ team_call.called
    /\ DOMAIN summaries_call.value = {"p1", "p2"}
    /\ DOMAIN team_call.player_to_team_map = {"p1"}
    /\ DOMAIN team_call.value = {"teamA", "UnknownTeam"}
    /\ RGt(summaries_call.value["p2"].total_distance_m, Zero)
    /\ team_call.value["UnknownTeam"].total_distance_m
          = summaries_call.value["p2"].total_distance_m

\* runs i and j took the same frames
SameFrames(i, j) == runs[i].tracking_df = runs[j].tracking_df

\* C12: for the same frames a higher sprint threshold never gives a higher
\* total_sprint_distance_m: with s1 <= s2, enriching and summarising with s2
\* gives at most what s1 gives.
C12_SprintDistanceMonotone ==
    \A i, j \in DOMAIN runs :
        (/\ SameFrames(i, j)
         /\ RLe(runs[i].sprint_speed_threshold_kmh, runs[j].sprint_speed_threshold_kmh)) =>
            /\ DOMAIN runs[i].summaries = DOMAIN runs[j].summaries
            /\ \A p \in DOMAIN runs[i].summaries :
                  RLe(runs[j].summaries[p].total_sprint_distance_m,
                      runs[i].summaries[p].total_sprint_distance_m)

\* the higher threshold takes sprint distance away from a player and leaves some
C12_Witness ==
    /\ Len(runs) = 2
    /\ SameFrames(1, 2)
    /\ RLt(runs[1].sprint_speed_threshold_kmh, runs[2].sprint_speed_threshold_kmh)
    /\ \E p \in DOMAIN runs[1].summaries :
          /\ RGt(runs[2].summaries[p].total_sprint_distance_m, Zero)
          /\ RLt(runs[2].summaries[p].total_sprint_distance_m,
                 runs[1].summaries[p].total_sprint_distance_m)

RECURSIVE FrameDistanceOver(_, _)
\* the distance_covered_m of the frames I of a table, added up
FrameDistanceOver(data, I) ==
    IF I = {} THEN Zero
    ELSE RAdd(data.rows[SetMax(I)].distance_covered_m, FrameDistanceOver(data, I \ {SetMax(I)}))

\* the frames of a call that the thresholds passed to the call classify
SprintByThresholds(call) ==
    {i \in DOMAIN call.data.rows :
        RGt(call.data.rows[i].speed_kmh, call.sprint_speed_threshold_kmh)}
HirByThresholds(call) ==
    {i \in DOMAIN call.data.rows :
        /\ RGt(call.data.rows[i].speed_kmh, call.high_speed_threshold_kmh)
        /\ RLe(call.data.rows[i].speed_kmh, call.sprint_speed_threshold_kmh)}

\* the frames of a call that count: those its flags mark where it carries the
\* flag, those the thresholds of the call classify where it does not
SprintCounted(call) ==
    IF "is_sprinting" \in call.data.columns
    THEN {i \in DOMAIN call.data.rows : call.data.rows[i].is_sprinting}
    ELSE SprintByThresholds(call)
HirCounted(call) ==
    IF "is_high_intensity_running" \in call.data.columns
    THEN {i \in DOMAIN call.data.rows : call.data.rows[i].is_high_intensity_running}
    ELSE HirByThresholds(call)

SummaryOfCallReturned == summary_call.called /\ summary_call.raised = "None"
InBucket(k) == {i \in DOMAIN interval_call.data.rows : interval_call.group[i] = k}

\* C13 as claimed: the intensity totals of calculate_player_summary_stats and
\* the bucket values of aggregate_stats_by_interval are the sums of
\* distance_covered_m over the frames that the thresholds passed to the call
\* classify, also when the frames carry flags computed with other thresholds.
C13_ThresholdsOfTheCallDecide ==
    /\ SummaryOfCallReturned =>
          /\ summary_call.value.total_sprint_distance_m
                = FrameDistanceOver(summary_call.data, SprintByThresholds(summary_call))
          /\ summary_call.value.total_high_intensity_running_distance_m
                = FrameDistanceOver(summary_call.data, HirByThresholds(summary_call))
    /\ IntervalsReturned =>
          \A k \in DOMAIN IntervalBuckets :
              /\ IntervalBuckets[k].sprint_distance_m
                    = FrameDistanceOver(interval_call.data,
                                        InBucket(k) \cap SprintByThresholds(interval_call))
              /\ IntervalBuckets[k].high_intensity_running_distance_m
                    = FrameDistanceOver(interval_call.data,
                                        InBucket(k) \cap HirByThresholds(interval_call))

\* C13 amended: the thresholds passed to calculate_player_summary_stats and
\* to aggregate_stats_by_interval decide only for frames without the flag
\* column; where the frames carry is_sprinting / is_high_intensity_running the
\* totals and the bucket values are the sums of distance_covered_m over the
\* frames the flag marks, whatever thresholds the call was given.
C13_FlagsOfTheFramesDecide ==
    /\ SummaryOfCallReturned =>
          /\ summary_call.value.total_sprint_distance_m
                = FrameDistanceOver(summary_call.data, SprintCounted(summary_call))
          /\ summary_call.value.total_high_intensity_running_distance_m
                = FrameDistanceOver(summary_call.data, HirCounted(summary_call))
    /\ IntervalsReturned =>
          \A k \in DOMAIN IntervalBuckets :
              /\ IntervalBuckets[k].sprint_distance_m
                    = FrameDistanceOver(interval_call.data,
                                        InBucket(k) \cap SprintCounted(interval_call))
              /\ IntervalBuckets[k].high_intensity_running_distance_m
                    = FrameDistanceOver(interval_call.data,
                                        InBucket(k) \cap HirCounted(interval_call))

\* a summary whose high-intensity distance comes from flags that the
\* thresholds of the call would not have set
C13_Witness ==
    /\ SummaryOfCallReturned
    /\ summary_call.dropped = {}
    /\ summary_call.high_speed_threshold_kmh # enrich_call.high_speed_threshold_kmh
    /\ RGt(summary_call.value.total_high_intensity_running_distance_m, Zero)
    /\ HirByThresholds(summary_call) = {}

\* the frames of player p counted as accelerations and as decelerations
Accelerating(p) ==
    {i \in RowsOf(p) : RGt(enriched_df.rows[i].acceleration_ms2, ACCELERATION_THRESHOLD_MS2)}
Decelerating(p) ==
    {i \in RowsOf(p) : RLt(enriched_df.rows[i].acceleration_ms2, DECELERATION_THRESHOLD_MS2)}

\* Scenario A: the frames of p1 are one at 0 ms with 10 km/h and one at 1000 ms with 30 km/h
ScenarioA ==
    /\ SummariesReturned
    /\ \E i, j \in DOMAIN enriched_df.rows :
          /\ RowsOf("p1") = {i, j}
          /\ i < j
          /\ enriched_df.rows[i].timestamp_ms = 0
          /\ enriched_df.rows[j].timestamp_ms = 1000
          /\ enriched_df.rows[i].speed_kmh = Int2R(10)
          /\ enriched_df.rows[j].speed_kmh = Int2R(30)

\* C14: num_accelerations counts the frames of a player with acceleration_ms2
\* above the acceleration threshold, num_decelerations those with
\* acceleration_ms2 below the deceleration threshold; no frame is in both
\* counts, the first frame of a player is in neither, and 10 km/h then
\* 30 km/h 1000 ms apart give one acceleration, no deceleration and
\* is_sprinting on the second frame only.
C14_AccelerationCounts ==
    /\ SummariesReturned =>
          \A p \in DOMAIN summaries_call.value :
              /\ summaries_call.value[p].num_accelerations = Int2R(Cardinality(Accelerating(p)))
              /\ summaries_call.value[p].num_decelerations = Int2R(Cardinality(Decelerating(p)))
              /\ Accelerating(p) \cap Decelerating(p) = {}
              /\ \A i \in RowsOf(p) :
                    FirstOfPlayer(i) => i \notin Accelerating(p) \cup Decelerating(p)
    /\ ScenarioA =>
          /\ summaries_call.value["p1"].num_accelerations = Int2R(1)
          /\ summaries_call.value["p1"].num_decelerations = Int2R(0)
          /\ \A i \in RowsOf("p1") :
                enriched_df.rows[i].is_sprinting <=> enriched_df.rows[i].timestamp_ms = 1000
          /\ \E i \in RowsOf("p1") : enriched_df.rows[i].acceleration_ms2 = Rat(50, 9)

\* Scenario A, its one acceleration counted and its second frame sprinting
C14_Witness ==
    /\ ScenarioA
    /\ summaries_call.value["p1"].num_accelerations = Int2R(1)
    /\ \E i \in RowsOf("p1") : enriched_df.rows[i].is_sprinting

\* output row j is the enriched frame of input row i
EnrichedFrom(j, i) ==
    /\ enriched_df.rows[j].index = tracking_df.rows[i].index
    /\ enriched_df.rows[j].player_id = tracking_df.rows[i].player_id
    /\ enriched_df.rows[j].timestamp_ms = tracking_df.rows[i].timestamp_ms
    /\ enriched_df.rows[j].x = tracking_df.rows[i].x
    /\ enriched_df.rows[j].y = tracking_df.rows[i].y

\* C15: enrich_tracking_data returns one enriched frame for every input frame,
\* none added, dropped or doubled, each with the player_id, timestamp_ms, x
\* and y of its input frame; the frames of a player come out by
\* non-decreasing timestamp_ms, frames of equal timestamp in arrival order.
C15_FramesConserved ==
    EnrichReturned =>
        /\ Len(enriched_df.rows) = Len(tracking_df.rows)
        /\ \A i \in DOMAIN tracking_df.rows :
              Cardinality({j \in DOMAIN enriched_df.rows : EnrichedFrom(j, i)}) = 1
        /\ \A j \in DOMAIN enriched_df.rows :
              Cardinality({i \in DOMAIN tracking_df.rows : EnrichedFrom(j, i)}) = 1
        /\ \A j, k \in DOMAIN enriched_df.rows :
              (j < k /\ enriched_df.rows[j].player_id = enriched_df.rows[k].player_id) =>
                  \/ enriched_df.rows[j].timestamp_ms < enriched_df.rows[k].timestamp_ms
                  \/ /\ enriched_df.rows[j].timestamp_ms = enriched_df.rows[k].timestamp_ms
                     /\ enriched_df.rows[j].index < enriched_df.rows[k].index

\* an input with a frame of p2 between two frames of p1 that have the same
\* timestamp and different positions; the output is not in input order
C15_Witness ==
    /\ EnrichReturned
    /\ Len(tracking_df.rows) = 3
    /\ \E i, j, k \in DOMAIN tracking_df.rows :
          /\ i < j /\ j < k
          /\ tracking_df.rows[i].player_id = "p1"
          /\ tracking_df.rows[j].player_id = "p2"
          /\ tracking_df.rows[k].player_id = "p1"
          /\ tracking_df.rows[i].timestamp_ms = tracking_df.rows[k].timestamp_ms
          /\ tracking_df.rows[i].x # tracking_df.rows[k].x
    /\ \E j \in DOMAIN enriched_df.rows : enriched_df.rows[j].index # j - 1

\* a frame without its index label
Unlabelled(row) == [c \in DOMAIN row \ {"index"} |-> row[c]]

\* the frames of player p in a table, in the order of the table
FramesOfPlayer(df, p) ==
    [k \in 1..Cardinality({i \in DOMAIN df.rows : df.rows[i].player_id = p}) |->
        Unlabelled(df.rows[CHOOSE i \in DOMAIN df.rows :
                              /\ df.rows[i].player_id = p
                              /\ Cardinality({j \in 1..i : df.rows[j].player_id = p}) = k])]

\* C16: what a player gets does not depend on the other players: two inputs
\* with the same frames of player p, whatever frames of other players they
\* hold, give the same enriched frames of p and the same summary of p.
C16_PlayerIndependent ==
    \A i, j \in DOMAIN runs :
        \A p \in Players :
            FramesOfPlayer(runs[i].tracking_df, p) = FramesOfPlayer(runs[j].tracking_df, p) =>
                /\ FramesOfPlayer(runs[i].enriched, p) = FramesOfPlayer(runs[j].enriched, p)
                /\ p \in DOMAIN runs[i].summaries <=> p \in DOMAIN runs[j].summaries
                /\ p \in DOMAIN runs[i].summaries =>
                      runs[i].summaries[p] = runs[j].summaries[p]

\* p2 run with and without a frame of p1 that sorts before its frames; p2
\* has covered distance
C16_Witness ==
    /\ Len(runs) = 2
    /\ runs[1].tracking_df # runs[2].tracking_df
    /\ FramesOfPlayer(runs[1].tracking_df, "p1") # << >>
    /\ FramesOfPlayer(runs[2].tracking_df, "p1") = << >>
    /\ "p2" \in DOMAIN runs[2].summaries
    /\ RGt(runs[2].summaries["p2"].total_distance_m, Zero)
    /\ runs[1].summaries["p2"] = runs[2].summaries["p2"]

(***************************************************************************)
(* C17: a POST /process-match whose two paths exist answers 202 with the    *)
(* match_id of the request, leaves the entry of that match_id at status     *)
(* "pending" and adds exactly one background task, with that match_id and   *)
(* the two paths of the request; and as long as a task has not run, its     *)
(* match_id has an entry, so the entry is pending before the task can run.  *)
(***************************************************************************)
TaskOf(request) ==
    [match_id |-> request.match_id, tracking_path |-> request.tracking_data_path,
     event_path |-> request.event_data_path]

Accepted(request) ==
    path_exists(request.tracking_data_path) /\ path_exists(request.event_data_path)

C17_AcceptedPostIsPending ==
    /\ [](\A task \in BagToSet(background_tasks) :
             task.match_id \in DOMAIN processed_match_data_cache)
    /\ [][(ProcessMatch /\ Accepted(response'.request)) =>
             /\ response'.status_code = 202
             /\ response'.match_id = response'.request.match_id
             /\ response'.request.match_id \in DOMAIN processed_match_data_cache'
             /\ processed_match_data_cache'[response'.request.match_id].status = "pending"
             /\ background_tasks' = background_tasks (+) SetToBag({TaskOf(response'.request)})
             /\ BagCardinality(background_tasks') = BagCardinality(background_tasks) + 1]_vars

\* an accepted POST for a match that was processed before has just been answered
C17_Witness ==
    /\ response.called
    /\ response.endpoint = "process_match"
    /\ response.status_code = 202
    /\ background_run.called
    /\ background_run.match_id = response.request.match_id
    /\ Len(background_run.steps) = 5
    /\ processed_match_data_cache[response.request.match_id] = [status |-> "pending"]
    /\ CopiesIn(TaskOf(response.request), background_tasks) = 1

(***************************************************************************)
(* C18: a POST /process-match that names a tracking file or an event file   *)
(* that does not exist answers 404, adds no background task and leaves the  *)
(* cache as it was: no entry appears for the match_id, and an entry the     *)
(* match_id already had keeps its status and its data.                      *)
(***************************************************************************)
C18_RejectedPostChangesNothing ==
    [][(ProcessMatch /\ ~Accepted(response'.request)) =>
          /\ response'.status_code = 404
          /\ response'.detail \in {"Tracking data file not found", "Event data file not found"}
          /\ background_tasks' = background_tasks
          /\ processed_match_data_cache' = processed_match_data_cache]_vars

\* a POST naming a missing file was answered 404 for a match whose results are
\* in the cache, with no task waiting
C18_Witness ==
    /\ response.called
    /\ response.endpoint = "process_match"
    /\ ~Accepted(response.request)
    /\ response.status_code = 404
    /\ response.request.match_id \in DOMAIN processed_match_data_cache
    /\ processed_match_data_cache[response.request.match_id].status = "processed"
    /\ ~df_empty(processed_match_data_cache[response.request.match_id].enriched_tracking_df)
    /\ background_tasks = EmptyBag

(***************************************************************************)
(* C19: results are served only for processed matches. Whatever the cache   *)
(* holds, GET summary, GET player details and GET team summary-over-time    *)
(* answer 404 for a match_id that has no entry or whose entry has status    *)
(* "pending" or "error"; GET status answers 404 exactly when the match_id   *)
(* has no entry, and otherwise reports the status and the message stored    *)
(* in the entry.                                                            *)
(***************************************************************************)
StoredMessage(entry) == IF "message" \in DOMAIN entry THEN entry.message ELSE "None"

Unprocessed(match_id) ==
    \/ match_id \notin DOMAIN processed_match_data_cache
    \/ processed_match_data_cache[match_id].status \in {"pending", "error"}

\* the step is the answer of the endpoint: only the requests change response,
\* and each of them records its endpoint
Answered(endpoint) == response' # response /\ response'.endpoint = endpoint

C19_ResultsOnlyForProcessed ==
    [][/\ (\/ Answered("get_match_summary")
           \/ Answered("get_player_details")
           \/ Answered("get_team_summary_over_time")) =>
             (Unprocessed(response'.request.match_id) => response'.status_code = 404)
       /\ Answered("get_match_status") =>
             /\ response'.status_code = 404
                   <=> response'.request.match_id \notin DOMAIN processed_match_data_cache
             /\ response'.request.match_id \in DOMAIN processed_match_data_cache =>
                   /\ response'.status_code = 200
                   /\ response'.match_id = response'.request.match_id
                   /\ response'.status =
                         processed_match_data_cache[response'.request.match_id].status
                   /\ response'.message =
                         StoredMessage(processed_match_data_cache[response'.request.match_id])
      ]_vars

\* player details were refused for a match in error while the results of the
\* other match are in the cache
C19_Witness ==
    /\ response.called
    /\ response.endpoint = "get_player_details"
    /\ response.status_code = 404
    /\ response.request.player_id = "p1"
    /\ response.request.match_id \in DOMAIN processed_match_data_cache
    /\ processed_match_data_cache[response.request.match_id].status = "error"
    /\ \E other \in DOMAIN processed_match_data_cache :
          /\ processed_match_data_cache[other].status = "processed"
          /\ get_player_details(processed_match_data_cache, other, "p1").status_code = 200

(***************************************************************************)
(* C20: when load_tracking_data returns an empty table, the run of          *)
(* _process_match_data_background ends with the entry of its match at       *)
(* status "error" and message "Tracking data loading failed.", and it calls *)
(* neither enrich_tracking_data nor generate_all_player_summaries nor       *)
(* generate_team_summaries.                                                 *)
(***************************************************************************)
\* the step is a run of a background task: only a run takes a task away
RunEnded == BagCardinality(background_tasks') < BagCardinality(background_tasks)

C20_EmptyTrackingIsAnError ==
    [][(RunEnded /\ background_run'.tracking_frames = 0) =>
          /\ processed_match_data_cache'[background_run'.match_id] =
                [status |-> "error", message |-> "Tracking data loading failed."]
          /\ \A i \in DOMAIN background_run'.steps :
                background_run'.steps[i] \notin {"enrich_tracking_data",
                                                 "generate_all_player_summaries",
                                                 "generate_team_summaries"}]_vars

\* a run whose loader returned no frame has ended, over an entry that was pending
C20_Witness ==
    /\ background_run.called
    /\ background_run.tracking_frames = 0
    /\ background_run.steps = <<"load_tracking_data", "load_event_data">>
    /\ processed_match_data_cache[background_run.match_id].status = "error"
    /\ processed_match_data_cache[background_run.match_id].message =
          "Tracking data loading failed."

(***************************************************************************)
(* C21: a run of _process_match_data_background whose tracking load and     *)
(* whose enrichment both return data calls load, enrich, player summaries   *)
(* and team summaries in that order, each once, each on what the step       *)
(* before it returned, and writes the cache last and once; the team         *)
(* summaries are computed only when every player of the enriched frames has *)
(* its summary; the run ends with the entry of its match at status          *)
(* "processed", holding exactly the enriched frames, player summaries and   *)
(* team summaries those steps returned.                                     *)
(***************************************************************************)
StepsOfRun ==
    <<"load_tracking_data", "load_event_data", "enrich_tracking_data",
      "generate_all_player_summaries", "generate_team_summaries">>

Has(field) == background_run.called /\ field \in DOMAIN background_run

\* the loader and the enrichment of the run both return frames
LoadAndEnrichReturnData ==
    /\ background_run.called
    /\ storage_error(background_run.env) = "None"
    /\ ~df_empty(load_tracking_data(background_run.tracking_path))
    /\ enrich_tracking_data(load_tracking_data(background_run.tracking_path),
                            DEFAULT_HIGH_SPEED_THRESHOLD_KMH,
                            DEFAULT_SPRINT_SPEED_THRESHOLD_KMH).raised = "None"
    /\ ~df_empty(enrich_tracking_data(load_tracking_data(background_run.tracking_path),
                                      DEFAULT_HIGH_SPEED_THRESHOLD_KMH,
                                      DEFAULT_SPRINT_SPEED_THRESHOLD_KMH).value)

C21_StepsInOrder ==
    background_run.called =>
       /\ Len(background_run.steps) <= Len(StepsOfRun)
       /\ \A i \in DOMAIN background_run.steps : background_run.steps[i] = StepsOfRun[i]
       /\ Has("tracking_df") =>
             background_run.tracking_df = load_tracking_data(background_run.tracking_path)
       /\ Has("enriched_df") =>
             /\ Len(background_run.steps) >= 3
             /\ background_run.enriched_df =
                   enrich_tracking_data(background_run.tracking_df,
                                        DEFAULT_HIGH_SPEED_THRESHOLD_KMH,
                                        DEFAULT_SPRINT_SPEED_THRESHOLD_KMH).value
       /\ Has("player_summaries") =>
             /\ DOMAIN background_run.player_summaries
                   \subseteq players_of(background_run.enriched_df)
             /\ \A p \in DOMAIN background_run.player_summaries :
                   background_run.player_summaries[p] =
                      default_summary(player_rows(background_run.enriched_df, p)).value
       /\ Has("team_summaries") =>
             /\ Len(background_run.steps) = 5
             /\ DOMAIN background_run.player_summaries
                   = players_of(background_run.enriched_df)
             /\ background_run.team_summaries =
                   generate_team_summaries(background_run.player_summaries,
                                           get_player_to_team_map(background_run.enriched_df))
       /\ (LoadAndEnrichReturnData /\ background_run.pc # "done") =>
             background_run.writes = 0
       /\ (LoadAndEnrichReturnData /\ background_run.pc = "done") =>
             /\ background_run.steps = StepsOfRun
             /\ background_run.writes = 1
             /\ processed_match_data_cache[background_run.match_id].status = "processed"
             /\ processed_match_data_cache[background_run.match_id].enriched_tracking_df
                   = background_run.enriched_df
             /\ processed_match_data_cache[background_run.match_id].player_summaries
                   = background_run.player_summaries
             /\ processed_match_data_cache[background_run.match_id].team_summaries
                   = background_run.team_summaries

\* a run over the frames of two players of two teams has ended
C21_Witness ==
    /\ LoadAndEnrichReturnData
    /\ background_run.pc = "done"
    /\ background_run.steps = StepsOfRun
    /\ Cardinality(DOMAIN background_run.player_summaries) = 2
    /\ Cardinality(DOMAIN background_run.team_summaries) = 2
    /\ processed_match_data_cache[background_run.match_id].status = "processed"

(***************************************************************************)
(* C22: the buckets aggregate_stats_by_interval returns are contiguous and  *)
(* anchored at the first frame: bucket k (k = 0, 1, ...) starts at the time *)
(* of the first frame in seconds plus k times the bucket width, every       *)
(* bucket ends where the next one starts, and every bucket starts before it *)
(* ends.                                                                    *)
(***************************************************************************)
C22_BucketsContiguous ==
    IntervalsReturned =>
       \A k \in DOMAIN IntervalBuckets :
          /\ IntervalBuckets[k].interval_start_time_s =
                Rat(IntervalFirstMs + (k - 1) * IntervalWidthMs, 1000)
          /\ k < Len(IntervalBuckets) =>
                IntervalBuckets[k].interval_end_time_s =
                   IntervalBuckets[k + 1].interval_start_time_s
          /\ RLt(IntervalBuckets[k].interval_start_time_s,
                 IntervalBuckets[k].interval_end_time_s)

\* four two-minute buckets over frames at 0, 5 and 7 minutes
C22_Witness ==
    /\ IntervalsReturned
    /\ Len(interval_call.data.rows) = 3
    /\ IntervalSpanMs = 420000
    /\ Len(IntervalBuckets) = 4
    /\ IntervalBuckets[4].interval_start_time_s = Int2R(360)

(***************************************************************************)
(* C23: a window of the bucket grid that holds no frame and lies between    *)
(* the first and the last frame is still a bucket of what                   *)
(* aggregate_stats_by_interval returns, with distance_m,                    *)
(* high_intensity_running_distance_m, sprint_distance_m, num_accelerations, *)
(* num_decelerations and avg_speed_kmh all 0.                               *)
(***************************************************************************)
\* no frame has its time in window k = 1, 2, ... of the grid
WindowWithoutFrame(k) ==
    \A i \in DOMAIN interval_call.data.rows :
       ~(/\ IntervalFirstMs + (k - 1) * IntervalWidthMs
               <= interval_call.data.rows[i].timestamp_ms
         /\ interval_call.data.rows[i].timestamp_ms < IntervalFirstMs + k * IntervalWidthMs)

C23_EmptyWindowIsAZeroBucket ==
    IntervalsReturned =>
       \A k \in 1..(IntervalSpanMs \div IntervalWidthMs) :
          WindowWithoutFrame(k) =>
             /\ k \in DOMAIN IntervalBuckets
             /\ IntervalBuckets[k].interval_start_time_s =
                   Rat(IntervalFirstMs + (k - 1) * IntervalWidthMs, 1000)
             /\ \A f \in BucketFields \ {"interval_start_time_s", "interval_end_time_s"} :
                   IntervalBuckets[k][f] = Zero

\* frames at 0 and 7 minutes in two-minute buckets: the second and the third
\* bucket hold no frame
C23_Witness ==
    /\ IntervalsReturned
    /\ IntervalSpanMs = 420000
    /\ IntervalWidthMs = 120000
    /\ WindowWithoutFrame(2)
    /\ WindowWithoutFrame(3)
    /\ Len(IntervalBuckets) = 4
    /\ IntervalBuckets[2].avg_speed_kmh = Zero
    /\ IntervalBuckets[1].avg_speed_kmh # Zero

(***************************************************************************)
(* C24: on enriched frames that carry both intensity flags, for any bucket  *)
(* width and the default thresholds, generate_team_intervals and            *)
(* aggregate_stats_by_interval return the same number of buckets, with the  *)
(* same start and end times and, bucket by bucket, the same distance,       *)
(* high-intensity distance, sprint distance, acceleration count,            *)
(* deceleration count and average speed, the team fields being the player   *)
(* fields under the total_ / avg_team_ names.                               *)
(***************************************************************************)
TeamFieldOf ==
    [interval_start_time_s |-> "interval_start_time_s",
     interval_end_time_s |-> "interval_end_time_s",
     distance_m |-> "total_distance_m",
     high_intensity_running_distance_m |-> "total_high_intensity_running_distance_m",
     sprint_distance_m |-> "total_sprint_distance_m",
     num_accelerations |-> "total_num_accelerations",
     num_decelerations |-> "total_num_decelerations",
     avg_speed_kmh |-> "avg_team_speed_kmh"]

BothAggregatorsCalled ==
    /\ team_call.called
    /\ interval_call.called
    /\ "data" \in DOMAIN team_call
    /\ interval_call.data = team_call.data
    /\ {"is_sprinting", "is_high_intensity_running"} \subseteq team_call.data.columns

C24_AggregatorsAgree ==
    BothAggregatorsCalled =>
       /\ team_call.raised = interval_call.raised
       /\ Len(team_call.value) = Len(interval_call.value)
       /\ \A k \in DOMAIN interval_call.value :
             \A f \in BucketFields :
                team_call.value[k][TeamFieldOf[f]] = interval_call.value[k][f]

\* frames of both players, one of them at 25.2 km/h, at 0 and at 7 minutes, in
\* four two-minute buckets
C24_Witness ==
    /\ BothAggregatorsCalled
    /\ team_call.raised = "None"
    /\ Len(team_call.value) = 4
    /\ {team_call.data.rows[i].player_id : i \in DOMAIN team_call.data.rows} = Players
    /\ \E i \in DOMAIN team_call.data.rows :
          team_call.data.rows[i].speed_kmh = DEFAULT_SPRINT_SPEED_THRESHOLD_KMH
    /\ team_call.value[1].total_high_intensity_running_distance_m # Zero

(***************************************************************************)
(* C25, as stated: aggregate_stats_by_interval called on frames that lack   *)
(* timestamp_ms, speed_kmh, distance_covered_m or acceleration_ms2 raises   *)
(* an error and returns no bucket list; it never answers with an empty or   *)
(* a partial list.                                                          *)
(***************************************************************************)
LacksEnrichment(data) ==
    ~({"timestamp_ms", "speed_kmh", "distance_covered_m", "acceleration_ms2"}
          \subseteq data.columns)

OneTimestampCall ==
    /\ interval_call.called
    /\ interval_call.dropped = {}
    /\ IntervalSpanMs = 0

C26_OneTimestampGivesOneBucket ==
    OneTimestampCall =>
       /\ interval_call.raised = "None"
       /\ Len(interval_call.value) = 1
       /\ interval_call.value[1].interval_start_time_s = Rat(IntervalFirstMs, 1000)
       /\ interval_call.value[1].distance_m = Zero
       /\ interval_call.value[1].high_intensity_running_distance_m = Zero
       /\ interval_call.value[1].sprint_distance_m = Zero

\* what the code does with such frames: np.arange(0, 0 + width, width) is the
\* one edge 0, pd.cut has no interval to offer, the groupby has no group and
\* the selection of the result columns raises; no bucket is returned
C26_OneTimestampRaises ==
    OneTimestampCall =>
       /\ interval_call.raised = "KeyError"
       /\ interval_call.value = << >>

\* a single enriched frame was aggregated
C26_Witness ==
    /\ OneTimestampCall
    /\ Len(interval_call.data.rows) = 1
    /\ interval_call.raised = "KeyError"

ResultFields == {"enriched_tracking_df", "player_summaries", "team_summaries"}

\* the run is over and one of its steps after the load raised
RunRaised ==
    /\ background_run.called
    /\ background_run.pc = "done"
    /\ "enrich_tracking_data" \in {background_run.steps[i] : i \in DOMAIN background_run.steps}
    /\ ~Has("team_summaries")

C28_NoPartialResult ==
    /\ RunRaised =>
          /\ processed_match_data_cache[background_run.match_id].status = "error"
          /\ "message" \in DOMAIN processed_match_data_cache[background_run.match_id]
          /\ DOMAIN processed_match_data_cache[background_run.match_id] \cap ResultFields = {}
    /\ \A m \in DOMAIN processed_match_data_cache :
          /\ processed_match_data_cache[m].status = "error" =>
                DOMAIN processed_match_data_cache[m] = {"status", "message"}
          /\ processed_match_data_cache[m].status = "processed" =>
                (ResultFields \cup {"player_to_team_map"})
                    \subseteq DOMAIN processed_match_data_cache[m]

\* a batch without player_id was loaded and enrichment raised on it
C28_Witness ==
    /\ RunRaised
    /\ background_run.tracking_path = "no_player_id.parquet"
    /\ "player_id" \notin background_run.tracking_df.columns
    /\ processed_match_data_cache[background_run.match_id] =
          [status |-> "error", message |-> "ValueError"]

(***************************************************************************)
(* C29: every run of _process_match_data_background ends, and at its end    *)
(* the entry of its match has status "error" or "processed", never          *)
(* "pending", whichever path the run took; with the background task         *)
(* scheduled fairly, every accepted match eventually leaves "pending".      *)
(***************************************************************************)
Pending(m) ==
    /\ m \in DOMAIN processed_match_data_cache
    /\ processed_match_data_cache[m].status = "pending"

Settled(m) ==
    /\ m \in DOMAIN processed_match_data_cache
    /\ processed_match_data_cache[m].status \in {"error", "processed"}

RunOver == background_run.called /\ background_run.pc = "done"

C29_RunsEndInATerminalStatus ==
    /\ [](RunOver => Settled(background_run.match_id))
    /\ [](background_run.called => <>RunOver)
    /\ \A m \in MatchIds : Pending(m) ~> Settled(m)

\* a run whose Azure download failed is over and its match holds the error
C29_Witness ==
    /\ RunOver
    /\ background_run.env.STORAGE_TYPE = "azure"
    /\ background_run.env.download_fails
    /\ background_run.writes = 2
    /\ processed_match_data_cache[background_run.match_id].status = "error"
    /\ background_tasks = EmptyBag

(***************************************************************************)
(* C30: the entries of different matches are isolated and reads are pure.   *)
(* Under any interleaving of requests and background tasks, a POST          *)
(* /process-match or a background task for match m writes only the entry    *)
(* of m, no GET endpoint changes the cache, and an entry that has reached   *)
(* "processed" or "error" changes again only through a newly accepted POST  *)
(* /process-match with the same match_id, which resets it to "pending".     *)
(***************************************************************************)
EntryOf(cache, m) == IF m \in DOMAIN cache THEN cache[m] ELSE [status |-> "absent"]

\* the step changes the entry of m
EntryChanges(m) ==
    EntryOf(processed_match_data_cache', m) # EntryOf(processed_match_data_cache, m)

\* the step is an accepted POST /process-match for m: it adds a task of m
PostAccepted(m) ==
    \E task \in BagToSet(background_tasks') :
        /\ task.match_id = m
        /\ CopiesIn(task, background_tasks') > CopiesIn(task, background_tasks)

\* the step is a background task for m that ran
TaskRan(m) == RunEnded /\ background_run'.match_id = m

\* the step is the answer of one of the GET endpoints
GetAnswered ==
    /\ BagCardinality(background_tasks') = BagCardinality(background_tasks)
    /\ response' # response
    /\ response'.endpoint # "process_match"

\* the first two parts of C30: writes stay within the entry of the match, and
\* the GET endpoints write nothing
C30_WritesOwnEntryAndReadsArePure ==
    [][/\ \A m \in MatchIds : EntryChanges(m) => (PostAccepted(m) \/ TaskRan(m))
       /\ GetAnswered => processed_match_data_cache' = processed_match_data_cache]_vars

\* all of C30, the last part included
C30_TerminalEntryChangesOnlyByPost ==
    [][/\ \A m \in MatchIds : EntryChanges(m) => (PostAccepted(m) \/ TaskRan(m))
       /\ GetAnswered => processed_match_data_cache' = processed_match_data_cache
       /\ \A m \in MatchIds :
             (/\ EntryOf(processed_match_data_cache, m).status \in {"processed", "error"}
              /\ EntryChanges(m)) =>
                /\ PostAccepted(m)
                /\ processed_match_data_cache'[m] = [status |-> "pending"]]_vars

\* two tasks of m1 were waiting; the first left the entry "processed", the
\* second has run and left it "error"
C30_Witness ==
    /\ background_run.called
    /\ background_run.match_id = "m1"
    /\ background_run.tracking_frames = 0
    /\ background_tasks = EmptyBag
    /\ processed_match_data_cache["m1"].status = "error"
    /\ response.called
    /\ response.endpoint = "get_match_status"
    /\ response.request.match_id = "m1"
    /\ response.status_code = 200
    /\ response.status = "processed"

=============================================================================
